---- MODULE Spec2Model ----
(***************************************************************************)
(* A model of the retrieval core of medquery-ai: the on-disk vector store  *)
(* (data/embeddings/<doc_id>_embeddings.pkl and <doc_id>_metadata.json,    *)
(* data/processed/<doc_id>.json, <doc_id>_export.zip), the managers that   *)
(* write it, the retrievers that read it, and DocumentManager /            *)
(* ExportImport that delete and copy it.                                   *)
(*                                                                         *)
(* Representation.                                                         *)
(*  - A doc_id is the tuple of the segments that "_" separates:            *)
(*    "lab_report_20240101120000" is <<"lab","report","20240101120000">>.  *)
(*  - A file is a record [exists, complete, data]; complete = FALSE is a   *)
(*    file that open(path, 'w') has truncated and whose content has not    *)
(*    been flushed yet.                                                    *)
(*  - A vector is a tuple of integers; the generators are tables of        *)
(*    vectors of Euclidean norm 5 (the unit vectors of the code, scaled),  *)
(*    of dimension 2 for the 384-dimensional generators and of dimension   *)
(*    3 for the 1536-dimensional provider.                                 *)
(*  - A similarity is the cosine in hundredths (fixed point).              *)
(*  - Positions in TLA+ sequences are 1-based; a chunk index (chunk_id,    *)
(*    an entry of top_indices) is the 0-based index of the code.           *)
(***************************************************************************)
EXTENDS Integers, Sequences, FiniteSets, TLC

VARIABLES
    embFile,    \* doc_id -> data/embeddings/<doc_id>_embeddings.pkl
    metaFile,   \* doc_id -> data/embeddings/<doc_id>_metadata.json
    procFile,   \* doc_id -> data/processed/<doc_id>.json
    zipFile,    \* doc_id -> <doc_id>_export.zip
    hashSeed,   \* the interpreter's string-hash randomisation (PYTHONHASHSEED)
    last,       \* the last completed call: its operation, arguments and outcome
    pc,         \* per thread: the position inside the call it is executing
    loc,        \* per thread: the locals of the call it is executing
    total_tokens,           \* the embeddings manager's counter of billed tokens
    total_cost,             \* the embeddings manager's estimated cost
    conversation_history,   \* SimpleQAChain.conversation_history
    users,                  \* data/users.json: the "users" list
    sessions,               \* UserAuth.sessions: the sessions, each with its token
    tokens,                 \* the session tokens secrets.token_hex has produced
    rng                     \* numpy's global RandomState (np.random.seed / randn)

\* the objects the application's process holds, and the users file
objects == <<total_tokens, total_cost, conversation_history, users, sessions, tokens>>

\* what the application's process holds in memory
memory == <<objects, rng>>

vars == <<embFile, metaFile, procFile, zipFile, hashSeed, last, pc, loc, memory>>

----------------------------------------------------------------------------
(* Bounds and input sets *)

\* longest chunk list (and document, in pages) given to a write
MaxChunks == 2

\* largest top_k given to a retrieval (the sliders start at 1)
MaxTopK == 3

\* longest doc_ids list given to retrieve_from_multiple_docs
MaxDocList == 2

Texts == {"t1", "t2"}

Queries == {"t1", "q"}

HashSeeds == {0, 1}

DocTypes == {<<"lab", "report">>, <<"prescription">>}

Timestamps == {"20240101120000"}

MakeDocId(doc_type, now) == doc_type \o <<now>>

DocIds == {MakeDocId(ty, ts) : ty \in DocTypes, ts \in Timestamps}

SeqsUpTo(S, n) == UNION {[1..k -> S] : k \in 0..n}

Chunk(text) == [page_content |-> text, metadata |-> [source |-> "upload.pdf"]]

ChunkLists == {[i \in 1..Len(ts) |-> Chunk(ts[i])] : ts \in SeqsUpTo(Texts, MaxChunks)}

TopKs == 1..MaxTopK

DocLists == SeqsUpTo(DocIds, MaxDocList)

\* longest chunk list written by a thread that runs beside other threads
MaxConcChunks == 1

ConcChunkLists == {[i \in 1..Len(ts) |-> Chunk(ts[i])] : ts \in SeqsUpTo(Texts, MaxConcChunks)}

\* the documents (lists of page texts) given to process_document
Documents == SeqsUpTo(Texts, MaxChunks)

----------------------------------------------------------------------------
(* Files *)

NoData == <<>>

NoMeta ==
    [doc_id |-> <<>>, chunk_count |-> 0, embedding_model |-> "", embedding_provider |-> "",
     chunks |-> <<>>]

NoEmbFile == [exists |-> FALSE, complete |-> FALSE, data |-> NoData]

NoMetaFile == [exists |-> FALSE, complete |-> FALSE, data |-> NoMeta]

TruncatedEmbFile == [exists |-> TRUE, complete |-> FALSE, data |-> NoData]

TruncatedMetaFile == [exists |-> TRUE, complete |-> FALSE, data |-> NoMeta]

NoProcessed == [id |-> <<>>, type |-> <<>>, page_count |-> 0, chunks |-> <<>>]

NoProcFile == [exists |-> FALSE, complete |-> FALSE, data |-> NoProcessed]

\* an export archive holds a copy of each of the three files that existed
NoZipFile ==
    [exists |-> FALSE, processed |-> NoProcFile, embeddings |-> NoEmbFile,
     metadata |-> NoMetaFile]

WrittenFile(content) == [exists |-> TRUE, complete |-> TRUE, data |-> content]

----------------------------------------------------------------------------
(* Vector generators *)

\* md5(text) -> seed -> randn(dim) / norm: a fixed function of the text
Md5Embedding(text) ==
    CASE text = "t1" -> <<5, 0>>
      [] text = "t2" -> <<3, 4>>
      [] OTHER       -> <<4, 3>>

\* hash(text) -> seed -> randn(dim) / norm: hash() of a str depends on the
\* interpreter's hash randomisation, so the function differs per process
HashEmbedding(text, seed) ==
    CASE text = "t1" -> IF seed = 0 THEN <<0, 5>> ELSE <<-3, 4>>
      [] text = "t2" -> IF seed = 0 THEN <<4, 3>> ELSE <<-5, 0>>
      [] OTHER       -> IF seed = 0 THEN <<3, 4>> ELSE <<0, -5>>

\* the text-embedding-3-small provider: some vector of its own dimension
OpenAIEmbedding(text) ==
    CASE text = "t1" -> <<5, 0, 0>>
      [] text = "t2" -> <<3, 4, 0>>
      [] OTHER       -> <<0, 3, 4>>

\* numpy's global RandomState, as far as a generator can tell: seeded with
\* the md5 seed of a text and not drawn from since, or any other state (the
\* state at the start of the process, the state after a draw)
Unseeded == [seeded |-> FALSE, text |-> ""]

\* np.random.seed(seed), seed being the md5 seed of text
np_random_seed(text) == [seeded |-> TRUE, text |-> text]

\* what a draw gives in a state that no text's seed has just set: a vector
\* of the dimension that is no text's vector
StrayVectors == {<<0, 5>>, <<-4, 3>>}

\* np.random.randn(dim), normalised: the vectors the draw can give in state
NormalizedRandn(state) ==
    IF state.seeded THEN {Md5Embedding(state.text)} ELSE StrayVectors

\* _generate_mock_embedding(text) of a call that runs alone
MockEmbeddingsManager_generate_mock_embedding(text) == Md5Embedding(text)

MockRetriever_generate_mock_embedding(text) == Md5Embedding(text)

EnhancedEmbeddingsManager_generate_mock_embedding(text, seed) == HashEmbedding(text, seed)

\* the all-MiniLM-L6-v2 provider: some vector of the mock generators'
\* dimension
HuggingFaceEmbedding(text) ==
    CASE text = "t1" -> <<5, 0>>
      [] text = "t2" -> <<3, 4>>
      [] OTHER       -> <<4, 3>>

ModelName(provider) ==
    IF provider = "openai" THEN "text-embedding-3-small"
    ELSE IF provider = "huggingface" THEN "all-MiniLM-L6-v2"
    ELSE "mock_embeddings"

----------------------------------------------------------------------------
(* Cosine similarity and ranking *)

RECURSIVE DotFrom(_, _, _)
DotFrom(a, b, i) == IF i > Len(a) THEN 0 ELSE a[i] * b[i] + DotFrom(a, b, i + 1)

\* np.dot of two 1-D arrays: defined when the shapes agree
Dot(a, b) == DotFrom(a, b, 1)

ShapesAligned(a, b) == Len(a) = Len(b)

ISqrt(n) == CHOOSE r \in 0..n : r * r <= n /\ n < (r + 1) * (r + 1)

\* np.linalg.norm
Norm(a) == ISqrt(Dot(a, a))

\* np.dot(a, b) / (np.linalg.norm(a) * np.linalg.norm(b)), in hundredths
cosine_similarity(a, b) == (Dot(a, b) * 100) \div (Norm(a) * Norm(b))

Max(a, b) == IF a >= b THEN a ELSE b

Min(a, b) == IF a <= b THEN a ELSE b

Injective(p) == \A i, j \in DOMAIN p : p[i] = p[j] => i = j

\* np.argsort(similarities): the 0-based indices in ascending order of value.
\* The default kind is not stable, so the order among equal values is any.
ArgSorts(sims) ==
    LET n == Len(sims)
    IN  {p \in [1..n -> 0..(n - 1)] :
            /\ Injective(p)
            /\ \A i \in 1..n : \A j \in 1..n : i < j => sims[p[i] + 1] <= sims[p[j] + 1]}

\* a slip: s[:k], the first k of the ascending order
SliceLast_Head(s, k) == SubSeq(s, 1, Min(Max(k, 0), Len(s)))

\* s[-k:]
SliceLast(s, k) ==
    LET n == Len(s)
        start == IF k > 0 THEN Max(n - k, 0) ELSE Min(0 - k, n)
    IN  SubSeq(s, start + 1, n)

\* a slip: no truncation to the global top_k
SliceFirst_All(s, k) == s

\* s[:k]
SliceFirst(s, k) ==
    LET n == Len(s)
        stop == IF k >= 0 THEN Min(k, n) ELSE Max(n + k, 0)
    IN  SubSeq(s, 1, stop)

\* s[::-1]
Reverse(s) == [i \in 1..Len(s) |-> s[Len(s) + 1 - i]]

\* np.argsort(similarities)[-top_k:][::-1], for each order argsort may return
TopIndices(sims, top_k) == {Reverse(SliceLast(p, top_k)) : p \in ArgSorts(sims)}

----------------------------------------------------------------------------
(* Retrieval *)

Ok(results) == [ok |-> TRUE, error |-> "", results |-> results]

Raise(error) == [ok |-> FALSE, error |-> error, results |-> <<>>]

NotFound == "ValueError: No embeddings found"

\* EnhancedEmbeddingsManager(provider).embed_query(text) when the
\* construction succeeded and the provider's library answers: the vector, as
\* a list of one. A provider that __init__ does not name has
\* self.embeddings = None and keeps self.provider, so the call raises.
embed_query(provider, text, seed) ==
    IF provider = "mock"
    THEN Ok(<<EnhancedEmbeddingsManager_generate_mock_embedding(text, seed)>>)
    ELSE IF provider = "openai" THEN Ok(<<OpenAIEmbedding(text)>>)
    ELSE IF provider = "huggingface" THEN Ok(<<HuggingFaceEmbedding(text)>>)
    ELSE Raise("AttributeError")

\* EnhancedEmbeddingsManager(provider).embed_documents(texts), likewise
embed_documents(provider, texts, seed) ==
    IF provider = "mock"
    THEN Ok([i \in 1..Len(texts) |->
                EnhancedEmbeddingsManager_generate_mock_embedding(texts[i], seed)])
    ELSE IF provider = "openai"
    THEN Ok([i \in 1..Len(texts) |-> OpenAIEmbedding(texts[i])])
    ELSE IF provider = "huggingface"
    THEN Ok([i \in 1..Len(texts) |-> HuggingFaceEmbedding(texts[i])])
    ELSE Raise("AttributeError")

\* the similarities list: one cosine_similarity per stored vector
Similarities(query_embedding, chunk_embeddings) ==
    [i \in 1..Len(chunk_embeddings) |-> cosine_similarity(query_embedding, chunk_embeddings[i])]

\* MockRetriever.retrieve / SimpleRetriever.retrieve: one entry of results
Result(chunk, score) ==
    [chunk_id |-> chunk.chunk_id, content |-> chunk.content, score |-> score,
     metadata |-> chunk.metadata]

\* MultiDocRetriever.retrieve_from_single_doc: one entry of results
ResultOfDoc(chunk, score, doc_id) ==
    [chunk_id |-> chunk.chunk_id, content |-> chunk.content, score |-> score,
     metadata |-> chunk.metadata, doc_id |-> doc_id]

\* for idx in top_indices: if idx < len(metadata["chunks"]): results.append(...)
RECURSIVE ResultsLoop(_, _, _, _, _, _)
ResultsLoop(top_indices, i, similarities, chunks, doc_id, tagged) ==
    IF i > Len(top_indices) THEN <<>>
    ELSE LET idx == top_indices[i]
             here == IF idx < Len(chunks)
                     THEN <<IF tagged
                            THEN ResultOfDoc(chunks[idx + 1], similarities[idx + 1], doc_id)
                            ELSE Result(chunks[idx + 1], similarities[idx + 1])>>
                     ELSE <<>>
         IN  here \o ResultsLoop(top_indices, i + 1, similarities, chunks, doc_id, tagged)

\* a slip: a missing embeddings file read as an empty document
RetrieveOutcomes_EmptyOnMissing(embF, metaF, query_embedding, doc_id, top_k, tagged) ==
    IF ~embF.exists THEN {Ok(<<>>)}
    ELSE IF ~embF.complete THEN {Raise("EOFError")}
    ELSE IF ~metaF.exists THEN {Raise("FileNotFoundError")}
    ELSE IF ~metaF.complete THEN {Raise("JSONDecodeError")}
    ELSE IF \E i \in 1..Len(embF.data) : ~ShapesAligned(query_embedding, embF.data[i])
    THEN {Raise("ValueError: shapes not aligned")}
    ELSE LET similarities == Similarities(query_embedding, embF.data)
         IN  {Ok(ResultsLoop(ti, 1, similarities, metaF.data.chunks, doc_id, tagged)) :
                 ti \in TopIndices(similarities, top_k)}

\* The body shared by MockRetriever.retrieve, SimpleRetriever.retrieve and
\* MultiDocRetriever.retrieve_from_single_doc: every outcome the call can have
\* on the two files as they are read.
RetrieveOutcomes(embF, metaF, query_embedding, doc_id, top_k, tagged) ==
    IF ~embF.exists THEN {Raise(NotFound)}
    ELSE IF ~embF.complete THEN {Raise("EOFError")}
    ELSE IF ~metaF.exists THEN {Raise("FileNotFoundError")}
    ELSE IF ~metaF.complete THEN {Raise("JSONDecodeError")}
    ELSE IF \E i \in 1..Len(embF.data) : ~ShapesAligned(query_embedding, embF.data[i])
    THEN {Raise("ValueError: shapes not aligned")}
    ELSE LET similarities == Similarities(query_embedding, embF.data)
         IN  {Ok(ResultsLoop(ti, 1, similarities, metaF.data.chunks, doc_id, tagged)) :
                 ti \in TopIndices(similarities, top_k)}

\* MockRetriever.retrieve(query, doc_id, top_k)
retrieve(embs, metas, query, doc_id, top_k) ==
    RetrieveOutcomes(embs[doc_id], metas[doc_id],
                     MockRetriever_generate_mock_embedding(query), doc_id, top_k, FALSE)

\* MultiDocRetriever.retrieve_from_single_doc(query, doc_id, top_k)
\* (the two files are loaded, lines 36-46, before the query is embedded,
\* line 49)
retrieve_from_single_doc(embs, metas, provider, seed, query, doc_id, top_k) ==
    LET query_embedding == embed_query(provider, query, seed)
        loaded == /\ embs[doc_id].exists /\ embs[doc_id].complete
                  /\ metas[doc_id].exists /\ metas[doc_id].complete
    IN  IF loaded /\ ~query_embedding.ok
        THEN {query_embedding}
        ELSE RetrieveOutcomes(embs[doc_id], metas[doc_id],
                              IF query_embedding.ok THEN query_embedding.results[1]
                              ELSE <<>>,
                              doc_id, top_k, TRUE)

\* list.sort(key=score, reverse=True): stable, equal scores keep their order
RECURSIVE SortByScoreDesc(_)
SortByScoreDesc(s) ==
    IF s = <<>> THEN <<>>
    ELSE LET n == Len(s)
             x == s[n]
             sorted == SortByScoreDesc(SubSeq(s, 1, n - 1))
             k == Cardinality({i \in 1..(n - 1) : sorted[i].score >= x.score})
         IN  SubSeq(sorted, 1, k) \o <<x>> \o SubSeq(sorted, k + 1, n - 1)

\* a slip: each document contributes its best chunk only
RECURSIVE AllResults_CapOne(_, _, _, _, _, _, _, _)
AllResults_CapOne(embs, metas, provider, seed, query, doc_ids, i, top_k) ==
    IF i > Len(doc_ids) THEN {<<>>}
    ELSE LET outs == retrieve_from_single_doc(embs, metas, provider, seed, query,
                                              doc_ids[i], 1)
             rest == AllResults_CapOne(embs, metas, provider, seed, query, doc_ids, i + 1,
                                       top_k)
         IN  {(IF o.ok THEN o.results ELSE <<>>) \o r : o \in outs, r \in rest}

\* the for loop of retrieve_from_multiple_docs: all_results for each outcome
\* the per-document calls can have; an exception skips the document
RECURSIVE AllResults(_, _, _, _, _, _, _, _)
AllResults(embs, metas, provider, seed, query, doc_ids, i, top_k) ==
    IF i > Len(doc_ids) THEN {<<>>}
    ELSE LET outs == retrieve_from_single_doc(embs, metas, provider, seed, query,
                                              doc_ids[i], top_k)
             rest == AllResults(embs, metas, provider, seed, query, doc_ids, i + 1, top_k)
         IN  {(IF o.ok THEN o.results ELSE <<>>) \o r : o \in outs, r \in rest}

\* a slip: no try/except around the per-document call, the first error aborts
retrieve_from_multiple_docs_Abort(embs, metas, provider, seed, query, doc_ids, top_k) ==
    LET failing == {i \in 1..Len(doc_ids) :
                       \E o \in retrieve_from_single_doc(embs, metas, provider, seed, query,
                                                         doc_ids[i], top_k) : ~o.ok}
    IN  IF failing # {}
        THEN LET first == CHOOSE i \in failing : \A j \in failing : i <= j
             IN  retrieve_from_single_doc(embs, metas, provider, seed, query,
                                          doc_ids[first], top_k)
        ELSE {Ok(SliceFirst(SortByScoreDesc(all), top_k)) :
                 all \in AllResults(embs, metas, provider, seed, query, doc_ids, 1, top_k)}

\* MultiDocRetriever.retrieve_from_multiple_docs(query, doc_ids, top_k)
retrieve_from_multiple_docs(embs, metas, provider, seed, query, doc_ids, top_k) ==
    {Ok(SliceFirst(SortByScoreDesc(all), top_k)) :
        all \in AllResults(embs, metas, provider, seed, query, doc_ids, 1, top_k)}

----------------------------------------------------------------------------
(* Writing a record: MockEmbeddingsManager / EnhancedEmbeddingsManager *)

PageContents(chunks) == [i \in 1..Len(chunks) |-> chunks[i].page_content]

\* a slip: enumerate(chunks, 1), the indices start at one
ChunkEntries_OneBased(chunks) ==
    [i \in 1..Len(chunks) |->
        [chunk_id |-> i, content |-> chunks[i].page_content, metadata |-> chunks[i].metadata]]

\* the "chunks" list of the metadata: enumerate(chunks)
ChunkEntries(chunks) ==
    [i \in 1..Len(chunks) |->
        [chunk_id |-> i - 1, content |-> chunks[i].page_content, metadata |-> chunks[i].metadata]]

\* MockEmbeddingsManager.embed_chunks: the embeddings list
MockEmbeddings(chunks) ==
    LET texts == PageContents(chunks)
    IN  [i \in 1..Len(texts) |-> MockEmbeddingsManager_generate_mock_embedding(texts[i])]

\* MockEmbeddingsManager.embed_chunks: the metadata dict (it has no
\* "embedding_provider" key: "" stands for the absent key)
MockMetadata(chunks, doc_id) ==
    [doc_id |-> doc_id, chunk_count |-> Len(chunks), embedding_model |-> "mock_embeddings",
     embedding_provider |-> "", chunks |-> ChunkEntries(chunks)]

----------------------------------------------------------------------------
(* The calls, each as one step (no other call runs meanwhile) *)

Threads == {"w1", "w2", "r1"}

NoCall ==
    [op |-> "none", doc_id |-> <<>>, doc_ids |-> <<>>, chunks |-> <<>>, query |-> "",
     top_k |-> 0, out |-> Ok(<<>>)]

Call(op, doc_id, doc_ids, chunks, query, top_k, out) ==
    [op |-> op, doc_id |-> doc_id, doc_ids |-> doc_ids, chunks |-> chunks, query |-> query,
     top_k |-> top_k, out |-> out]

\* the locals of a call in progress: its arguments and outcome, and what it
\* has loaded (chunk_embeddings, metadata) or computed (embeddings) so far
\* a call that holds no removed file
NoHeld == [emb |-> NoEmbFile, meta |-> NoMetaFile]

\* fd: the file of its doc_id the call has open ("emb", "meta") or "none";
\* unlinked: that file was removed from its path since the call opened it,
\* held is then the file and group the calls that had it open when it was
\* removed
NoLocals ==
    [call |-> NoCall, emb |-> NoData, meta |-> NoMeta, fd |-> "none", unlinked |-> FALSE,
     held |-> NoHeld, group |-> {}]

Idle == \A t \in Threads : pc[t] = "idle"

\* a caller starts a call once it has taken the outcome of its previous one
CanCall == Idle /\ last.op = "none"

\* a slip: the new lists are appended to the stored ones instead of replacing
\* them
EmbedChunks_Merge(chunks, doc_id) ==
    /\ CanCall
    /\ embFile' = [embFile EXCEPT ![doc_id] =
            WrittenFile(embFile[doc_id].data \o MockEmbeddings(chunks))]
    /\ metaFile' = [metaFile EXCEPT ![doc_id] =
            WrittenFile([MockMetadata(chunks, doc_id) EXCEPT
                !.chunks = metaFile[doc_id].data.chunks \o ChunkEntries(chunks)])]
    /\ last' = Call("embed_chunks", doc_id, <<>>, chunks, "", 0, Ok(<<>>))
    /\ UNCHANGED <<procFile, zipFile, hashSeed, memory, pc, loc>>

\* MockEmbeddingsManager.embed_chunks(chunks, doc_id)
EmbedChunks(chunks, doc_id) ==
    /\ CanCall
    /\ embFile' = [embFile EXCEPT ![doc_id] = WrittenFile(MockEmbeddings(chunks))]
    /\ metaFile' = [metaFile EXCEPT ![doc_id] = WrittenFile(MockMetadata(chunks, doc_id))]
    /\ last' = Call("embed_chunks", doc_id, <<>>, chunks, "", 0, Ok(<<>>))
    /\ UNCHANGED <<procFile, zipFile, hashSeed, memory, pc, loc>>

\* TextChunker.count_tokens(text): the number of tokens of the encoding; the
\* page texts of the model are of one and of two tokens
count_tokens(text) == IF text = "t2" THEN 2 ELSE 1

RECURSIVE SumTokens(_, _)
SumTokens(chunks, i) ==
    IF i > Len(chunks) THEN 0
    ELSE count_tokens(chunks[i].page_content) + SumTokens(chunks, i + 1)

\* the estimated cost of one token, in hundred-millionths of a dollar:
\* cost_per_1k_tokens = 0.00002
CostPerToken == 2

\* the largest total_tokens a manager of the model reaches
MaxBilledTokens == 4

\* EnhancedEmbeddingsManager.embed_chunks, lines 82-89: what the call adds to
\* total_tokens
billed_tokens(provider, chunks) ==
    IF provider = "openai" THEN SumTokens(chunks, 1) ELSE 0

\* EnhancedEmbeddingsManager.embed_chunks: the metadata dict, lines 100-113,
\* with the two keys lines 115-117 add for "openai"
EnhancedMetadata(provider, chunks, doc_id) ==
    IF provider = "openai"
    THEN [doc_id |-> doc_id, chunk_count |-> Len(chunks),
          embedding_model |-> ModelName(provider), embedding_provider |-> provider,
          chunks |-> ChunkEntries(chunks),
          token_count |-> billed_tokens(provider, chunks),
          estimated_cost |-> billed_tokens(provider, chunks) * CostPerToken]
    ELSE [doc_id |-> doc_id, chunk_count |-> Len(chunks),
          embedding_model |-> ModelName(provider), embedding_provider |-> provider,
          chunks |-> ChunkEntries(chunks)]

\* EnhancedEmbeddingsManager(provider).embed_chunks(chunks, doc_id) on the
\* provider's manager; a provider's library answers or raises (provider_ok).
\* For "openai" the counters are advanced (lines 82-87) before the embeddings
\* are asked for (line 92); the files are written after they were returned.
EnhancedEmbedChunks(provider, chunks, doc_id, provider_ok) ==
    LET token_count == billed_tokens(provider, chunks)
        returned == embed_documents(provider, PageContents(chunks), hashSeed)
        embeddings == IF returned.ok /\ ~provider_ok THEN Raise("ProviderError")
                      ELSE returned
    IN  /\ CanCall
        /\ provider = "mock" => provider_ok
        /\ total_tokens + token_count <= MaxBilledTokens
        /\ total_tokens' = total_tokens + token_count
        /\ total_cost' = total_cost + token_count * CostPerToken
        /\ IF embeddings.ok
           THEN /\ embFile' = [embFile EXCEPT ![doc_id] = WrittenFile(embeddings.results)]
                /\ metaFile' = [metaFile EXCEPT ![doc_id] =
                        WrittenFile(EnhancedMetadata(provider, chunks, doc_id))]
                /\ last' = Call("enhanced_embed_chunks", doc_id, <<>>, chunks, "", 0,
                                Ok(<<>>))
           ELSE /\ last' = Call("enhanced_embed_chunks", doc_id, <<>>, chunks, "", 0,
                                embeddings)
                /\ UNCHANGED <<embFile, metaFile>>
        /\ UNCHANGED <<procFile, zipFile, hashSeed, pc, loc, rng, conversation_history, users,
                       sessions, tokens>>

\* MockRetriever.list_available_documents(): one entry per *_metadata.json
\* file of the directory; json.load raises on a file that is not complete
\* JSON. os.listdir gives no order, the entries are a set.
list_available_documents(metas) ==
    IF \E d \in DocIds : metas[d].exists /\ ~metas[d].complete
    THEN Raise("JSONDecodeError")
    ELSE Ok({[doc_id |-> d, chunk_count |-> metas[d].data.chunk_count,
              embedding_model |-> metas[d].data.embedding_model] :
                 d \in {e \in DocIds : metas[e].exists}})

\* doc_id.split("_")[0] if "_" in doc_id else "unknown"
TypeOfDocId(doc_id) == IF Len(doc_id) >= 2 THEN <<doc_id[1]>> ELSE <<"unknown">>

\* MultiDocRetriever.list_available_documents(); a metadata file without the
\* "embedding_provider" key is listed with the default "unknown"
multi_list_available_documents(metas) ==
    IF \E d \in DocIds : metas[d].exists /\ ~metas[d].complete
    THEN Raise("JSONDecodeError")
    ELSE Ok({[doc_id |-> d, chunk_count |-> metas[d].data.chunk_count,
              embedding_model |-> metas[d].data.embedding_model,
              embedding_provider |->
                  IF metas[d].data.embedding_provider = "" THEN "unknown"
                  ELSE metas[d].data.embedding_provider,
              type |-> TypeOfDocId(d)] :
                 d \in {e \in DocIds : metas[e].exists}})

\* DocumentManager.list_processed_documents(): a file that does not load is
\* reported and left out
list_processed_documents(procs) ==
    Ok({[id |-> procs[d].data.id, type |-> procs[d].data.type] :
           d \in {e \in DocIds : procs[e].exists /\ procs[e].complete}})

\* What a provider other than "mock" may hand back from
\* self.embeddings.embed_documents(texts): the library's answer is not checked
\* by the caller, so any list of vectors of the provider's dimension
ProviderVectors(provider) ==
    IF provider = "openai" THEN {<<5, 0, 0>>, <<3, 4, 0>>} ELSE {<<5, 0>>, <<3, 4>>}

ProviderResponses(provider) == SeqsUpTo(ProviderVectors(provider), MaxChunks)

\* EnhancedEmbeddingsManager(provider).embed_chunks(chunks, doc_id) when the
\* provider's embed_documents returned embeddings: both files are written
\* from what was returned and from chunks, with no comparison of the lengths
EnhancedEmbedChunksResponse(provider, chunks, doc_id, embeddings) ==
    LET token_count == billed_tokens(provider, chunks)
    IN  /\ CanCall
        /\ provider \in {"openai", "huggingface"}
        /\ total_tokens + token_count <= MaxBilledTokens
        /\ total_tokens' = total_tokens + token_count
        /\ total_cost' = total_cost + token_count * CostPerToken
        /\ embFile' = [embFile EXCEPT ![doc_id] = WrittenFile(embeddings)]
        /\ metaFile' = [metaFile EXCEPT ![doc_id] =
                WrittenFile(EnhancedMetadata(provider, chunks, doc_id))]
        /\ last' = Call("enhanced_embed_chunks", doc_id, <<>>, chunks, "", 0, Ok(<<>>))
        /\ UNCHANGED <<procFile, zipFile, hashSeed, pc, loc, rng, conversation_history, users,
                       sessions, tokens>>

\* The provider argument of EnhancedEmbeddingsManager: the three it names and
\* one other string, which takes the else branch of __init__
Providers == {"mock", "openai", "huggingface", "cohere"}

\* EnhancedEmbeddingsManager.__init__(embeddings_dir, provider), with or
\* without OPENAI_API_KEY in the environment: the object's fields, or the
\* error raised
EnhancedEmbeddingsManager_init(provider, api_key_set) ==
    IF provider = "openai"
    THEN IF ~api_key_set
         THEN [ok |-> FALSE, error |-> "ValueError: OpenAI API key not found",
               provider |-> provider, embeddings |-> "None", model_name |-> "",
               embedding_dim |-> 0]
         ELSE [ok |-> TRUE, error |-> "", provider |-> provider,
               embeddings |-> "OpenAIEmbeddings", model_name |-> "text-embedding-3-small",
               embedding_dim |-> 3]
    ELSE IF provider = "huggingface"
    THEN [ok |-> TRUE, error |-> "", provider |-> provider,
          embeddings |-> "HuggingFaceEmbeddings", model_name |-> "all-MiniLM-L6-v2",
          embedding_dim |-> 2]
    ELSE [ok |-> TRUE, error |-> "", provider |-> provider, embeddings |-> "None",
          model_name |-> "mock_embeddings", embedding_dim |-> 2]

\* what the provider's library answers to one request: an error (missing
\* network, rejected credential) or vectors of its dimension
LibraryAnswers(provider) ==
    {Raise("ProviderError")}
        \cup {Ok(v) : v \in SeqsUpTo(ProviderVectors(provider), MaxConcChunks)}

LibraryQueryAnswers(provider) ==
    {Raise("ProviderError")} \cup {Ok(<<v>>) : v \in ProviderVectors(provider)}

\* a slip: when the library cannot answer, mock vectors are returned instead
manager_embed_documents_Fallback(manager, texts, seed, answer) ==
    IF manager.provider = "mock" \/ manager.embeddings = "None" \/ ~answer.ok
    THEN Ok([i \in 1..Len(texts) |->
                EnhancedEmbeddingsManager_generate_mock_embedding(texts[i], seed)])
    ELSE answer

\* EnhancedEmbeddingsManager.embed_documents(texts) on a constructed manager;
\* answer is what self.embeddings.embed_documents gives when it is called,
\* and self.embeddings is None in the else branch of __init__
manager_embed_documents(manager, texts, seed, answer) ==
    IF manager.provider = "mock"
    THEN Ok([i \in 1..Len(texts) |->
                EnhancedEmbeddingsManager_generate_mock_embedding(texts[i], seed)])
    ELSE IF manager.embeddings = "None" THEN Raise("AttributeError")
    ELSE answer

\* EnhancedEmbeddingsManager.embed_query(text); the vector is returned as a
\* list of one
manager_embed_query(manager, text, seed, answer) ==
    IF manager.provider = "mock"
    THEN Ok(<<EnhancedEmbeddingsManager_generate_mock_embedding(text, seed)>>)
    ELSE IF manager.embeddings = "None" THEN Raise("AttributeError")
    ELSE answer

\* the record of a call on a manager built for provider: the call, the
\* environment, and what the library would answer
ManagerCall(op, provider, api_key_set, answer, doc_id, chunks, query, out) ==
    [op |-> op, doc_id |-> doc_id, doc_ids |-> <<>>, chunks |-> chunks, query |-> query,
     top_k |-> 0, out |-> out, provider |-> provider, api_key_set |-> api_key_set,
     answer |-> answer]

\* EnhancedEmbeddingsManager(provider=provider).embed_query(text);
\* total_tokens and total_cost are the counters of the manager built for the
\* call, which __init__ sets to 0 (lines 46-47)
ManagerEmbedQuery(provider, api_key_set, text, answer) ==
    LET manager == EnhancedEmbeddingsManager_init(provider, api_key_set)
    IN  /\ CanCall
        /\ total_tokens' = 0
        /\ total_cost' = 0
        /\ last' = ManagerCall("embed_query", provider, api_key_set, answer, <<>>, <<>>, text,
                        IF ~manager.ok THEN Raise(manager.error)
                        ELSE manager_embed_query(manager, text, hashSeed, answer))
        /\ UNCHANGED <<embFile, metaFile, procFile, zipFile, hashSeed, pc, loc, rng,
                       conversation_history, users, sessions, tokens>>

\* EnhancedEmbeddingsManager(provider=provider).embed_documents(texts), texts
\* being the contents of chunks
ManagerEmbedDocuments(provider, api_key_set, chunks, answer) ==
    LET manager == EnhancedEmbeddingsManager_init(provider, api_key_set)
    IN  /\ CanCall
        /\ total_tokens' = 0
        /\ total_cost' = 0
        /\ last' = ManagerCall("embed_documents", provider, api_key_set, answer, <<>>,
                        chunks, "",
                        IF ~manager.ok THEN Raise(manager.error)
                        ELSE manager_embed_documents(manager, PageContents(chunks),
                                                     hashSeed, answer))
        /\ UNCHANGED <<embFile, metaFile, procFile, zipFile, hashSeed, pc, loc, rng,
                       conversation_history, users, sessions, tokens>>

\* EnhancedEmbeddingsManager(provider=provider).embed_chunks(chunks, doc_id):
\* an error of the constructor or of embed_documents (line 92) leaves the
\* files alone; otherwise both files are written. The manager built for the
\* call counts the tokens of the chunks (lines 82-87) before it asks for the
\* embeddings, whether they are returned or not; no manager is built when the
\* constructor raises.
ManagerEmbedChunks(provider, api_key_set, chunks, doc_id, answer) ==
    LET manager == EnhancedEmbeddingsManager_init(provider, api_key_set)
        embeddings == IF ~manager.ok THEN Raise(manager.error)
                      ELSE manager_embed_documents(manager, PageContents(chunks),
                                                   hashSeed, answer)
        token_count == IF manager.ok THEN billed_tokens(manager.provider, chunks) ELSE 0
    IN  /\ CanCall
        /\ total_tokens' = token_count
        /\ total_cost' = token_count * CostPerToken
        /\ IF embeddings.ok
           THEN /\ embFile' = [embFile EXCEPT ![doc_id] = WrittenFile(embeddings.results)]
                /\ metaFile' = [metaFile EXCEPT ![doc_id] = WrittenFile(
                        [EnhancedMetadata(manager.provider, chunks, doc_id)
                            EXCEPT !.embedding_model = manager.model_name])]
                /\ last' = ManagerCall("embed_chunks", provider, api_key_set, answer,
                                       doc_id, chunks, "", Ok(<<>>))
           ELSE /\ last' = ManagerCall("embed_chunks", provider, api_key_set, answer,
                                       doc_id, chunks, "", embeddings)
                /\ UNCHANGED <<embFile, metaFile>>
        /\ UNCHANGED <<procFile, zipFile, hashSeed, pc, loc, rng, conversation_history, users,
                       sessions, tokens>>

\* a slip: the metadata file is not removed
DeleteDocument_KeepsMetadata(doc_id) ==
    /\ CanCall
    /\ procFile' = [procFile EXCEPT ![doc_id] = NoProcFile]
    /\ embFile' = [embFile EXCEPT ![doc_id] = NoEmbFile]
    /\ last' = Call("delete_document", doc_id, <<>>, <<>>, "", 0, Ok(<<>>))
    /\ UNCHANGED <<metaFile, zipFile, hashSeed, memory, pc, loc>>

\* DocumentManager.delete_document(doc_id)
DeleteDocument(doc_id) ==
    /\ CanCall
    /\ procFile' = [procFile EXCEPT ![doc_id] = NoProcFile]
    /\ embFile' = [embFile EXCEPT ![doc_id] = NoEmbFile]
    /\ metaFile' = [metaFile EXCEPT ![doc_id] = NoMetaFile]
    /\ last' = Call("delete_document", doc_id, <<>>, <<>>, "", 0, Ok(<<>>))
    /\ UNCHANGED <<zipFile, hashSeed, memory, pc, loc>>

\* MockRetriever.retrieve(query, doc_id, top_k)
Retrieve(query, doc_id, top_k) ==
    /\ CanCall
    /\ \E out \in retrieve(embFile, metaFile, query, doc_id, top_k) :
           last' = Call("retrieve", doc_id, <<>>, <<>>, query, top_k, out)
    /\ UNCHANGED <<embFile, metaFile, procFile, zipFile, hashSeed, memory, pc, loc>>

\* MultiDocRetriever(provider="mock").retrieve_from_single_doc(query, doc_id, top_k)
RetrieveFromSingleDoc(query, doc_id, top_k) ==
    /\ CanCall
    /\ \E out \in retrieve_from_single_doc(embFile, metaFile, "mock", hashSeed, query,
                                            doc_id, top_k) :
           last' = Call("retrieve_from_single_doc", doc_id, <<>>, <<>>, query, top_k, out)
    /\ UNCHANGED <<embFile, metaFile, procFile, zipFile, hashSeed, memory, pc, loc>>

\* MultiDocRetriever(provider="mock").retrieve_from_multiple_docs(query, doc_ids, top_k)
RetrieveFromMultipleDocs(query, doc_ids, top_k) ==
    /\ CanCall
    /\ \E out \in retrieve_from_multiple_docs(embFile, metaFile, "mock", hashSeed, query,
                                               doc_ids, top_k) :
           last' = Call("retrieve_from_multiple_docs", <<>>, doc_ids, <<>>, query, top_k, out)
    /\ UNCHANGED <<embFile, metaFile, procFile, zipFile, hashSeed, memory, pc, loc>>

\* the lists that hold each element of S once (os.listdir gives no order)
Orderings(S) ==
    {o \in SeqsUpTo(S, Cardinality(S)) :
        Len(o) = Cardinality(S) /\ {o[i] : i \in 1..Len(o)} = S}

\* MultiDocRetriever.retrieve_by_type, lines 92-93: the doc_ids of the listed
\* documents whose "type" equals doc_type
DocIdsOfType(metas, doc_type) ==
    Orderings({e.doc_id : e \in {x \in multi_list_available_documents(metas).results :
                                     x.type = doc_type}})

\* MultiDocRetriever(provider="mock").retrieve_by_type(query, doc_type, top_k);
\* the record of the call keeps the doc_ids handed to
\* retrieve_from_multiple_docs and, as doc_id, the doc_type asked for
RetrieveByType(query, doc_type, top_k) ==
    /\ CanCall
    /\ IF ~multi_list_available_documents(metaFile).ok
       THEN last' = Call("retrieve_by_type", doc_type, <<>>, <<>>, query, top_k,
                         multi_list_available_documents(metaFile))
       ELSE \E doc_ids \in DocIdsOfType(metaFile, doc_type) :
              \E out \in retrieve_from_multiple_docs(embFile, metaFile, "mock", hashSeed,
                                                     query, doc_ids, top_k) :
                  last' = Call("retrieve_by_type", doc_type, doc_ids, <<>>, query, top_k, out)
    /\ UNCHANGED <<embFile, metaFile, procFile, zipFile, hashSeed, memory, pc, loc>>

\* TextChunker.chunk_document(document): the splitter turns every page into
\* chunks of that page; a page of the model is shorter than chunk_size and is
\* one chunk
chunk_document(document) == [i \in 1..Len(document) |-> Chunk(document[i])]

\* TextChunker.get_chunk_stats(chunks); the average in hundredths
get_chunk_stats(chunks) ==
    LET token_counts == {count_tokens(chunks[i].page_content) : i \in 1..Len(chunks)}
    IN  [total_chunks |-> Len(chunks),
         total_tokens |-> SumTokens(chunks, 1),
         avg_tokens_per_chunk |->
             IF Len(chunks) > 0 THEN (SumTokens(chunks, 1) * 100) \div Len(chunks) ELSE 0,
         max_tokens |-> IF Len(chunks) > 0
                        THEN CHOOSE m \in token_counts : \A n \in token_counts : m >= n
                        ELSE 0,
         min_tokens |-> IF Len(chunks) > 0
                        THEN CHOOSE m \in token_counts : \A n \in token_counts : m <= n
                        ELSE 0]

\* The chunk_size and chunk_overlap a TextChunker is built with, in tokens
MaxChunkSize == 3

\* (what a chunk_size of zero or less gives depends on the release of the
\* splitter; the settings of the model are those every release treats alike)
ChunkSizes == 1..MaxChunkSize

ChunkOverlaps == 0..MaxChunkSize

\* TextChunker.__init__(chunk_size, chunk_overlap): the two values are stored
\* and handed to RecursiveCharacterTextSplitter, whose constructor refuses a
\* chunk_overlap larger than chunk_size and, in its later releases, a
\* chunk_size that is not positive; TextChunker checks nothing itself
TextChunker_init(chunk_size, chunk_overlap) ==
    IF chunk_overlap > chunk_size
    THEN {Raise("ValueError: larger chunk overlap than chunk size")}
    ELSE IF chunk_size <= 0
    THEN {Raise("ValueError: chunk_size must be > 0"), Ok(<<>>)}
    ELSE {Ok(<<>>)}

\* the record of a call on a chunker built with chunk_size and chunk_overlap
ChunkerCall(op, chunk_size, chunk_overlap, document, chunks, out) ==
    [op |-> op, doc_id |-> <<>>, doc_ids |-> <<>>, chunks |-> chunks, query |-> "",
     top_k |-> 0, out |-> out, chunk_size |-> chunk_size, chunk_overlap |-> chunk_overlap,
     document |-> document]

\* TextChunker(chunk_size, chunk_overlap)
NewTextChunker(chunk_size, chunk_overlap) ==
    /\ CanCall
    /\ \E out \in TextChunker_init(chunk_size, chunk_overlap) :
           last' = ChunkerCall("TextChunker", chunk_size, chunk_overlap, <<>>, <<>>, out)
    /\ UNCHANGED <<embFile, metaFile, procFile, zipFile, hashSeed, memory, pc, loc>>

\* TextChunker(chunk_size, chunk_overlap).chunk_document(document), for a
\* document each of whose pages fits in chunk_size
ChunkDocument(chunk_size, chunk_overlap, document) ==
    /\ CanCall
    /\ \A i \in 1..Len(document) : count_tokens(document[i]) <= chunk_size
    /\ \E built \in TextChunker_init(chunk_size, chunk_overlap) :
           last' = IF built.ok
                   THEN ChunkerCall("chunk_document", chunk_size, chunk_overlap, document,
                                    chunk_document(document), Ok(<<>>))
                   ELSE ChunkerCall("chunk_document", chunk_size, chunk_overlap, document,
                                    <<>>, built)
    /\ UNCHANGED <<embFile, metaFile, procFile, zipFile, hashSeed, memory, pc, loc>>

\* SimpleEmbeddingsManager.embed_chunks: the metadata dict
SimpleMetadata(chunks, doc_id) ==
    [doc_id |-> doc_id, chunk_count |-> Len(chunks),
     embedding_model |-> "text-embedding-3-small", embedding_provider |-> "",
     chunks |-> ChunkEntries(chunks), token_count |-> SumTokens(chunks, 1),
     estimated_cost |-> SumTokens(chunks, 1) * CostPerToken]

\* SimpleEmbeddingsManager.embed_chunks(chunks, doc_id) on the process's
\* manager; answer is what self.embeddings.embed_documents(texts) gives. The
\* counters are advanced (lines 39-41) before the provider is asked (line 44)
\* and the files are written after it has answered.
SimpleEmbedChunks(chunks, doc_id, answer) ==
    LET token_count == SumTokens(chunks, 1)
    IN  /\ CanCall
        /\ total_tokens + token_count <= MaxBilledTokens
        /\ total_tokens' = total_tokens + token_count
        /\ total_cost' = total_cost + token_count * CostPerToken
        /\ IF answer.ok
           THEN /\ embFile' = [embFile EXCEPT ![doc_id] = WrittenFile(answer.results)]
                /\ metaFile' = [metaFile EXCEPT ![doc_id] =
                        WrittenFile(SimpleMetadata(chunks, doc_id))]
                /\ last' = Call("simple_embed_chunks", doc_id, <<>>, chunks, "", 0, Ok(<<>>))
           ELSE /\ last' = Call("simple_embed_chunks", doc_id, <<>>, chunks, "", 0, answer)
                /\ UNCHANGED <<embFile, metaFile>>
        /\ UNCHANGED <<procFile, zipFile, hashSeed, pc, loc, rng, conversation_history, users,
                       sessions, tokens>>

\* SimpleQAChain._format_answer(query, results, doc_id): the fixed sentence
\* for no results, or the contents of the results as "Source i" paragraphs
\* between the heading and the note
format_answer(results) ==
    IF results = <<>>
    THEN [found |-> FALSE, sources |-> <<>>]
    ELSE [found |-> TRUE, sources |-> [i \in 1..Len(results) |-> results[i].content]]

\* a slip: the pair is put in front of the list
add_to_history_Front(history, query, answer) ==
    <<[query |-> query, answer |-> answer]>> \o history

\* SimpleQAChain.add_to_history(query, answer)
add_to_history(history, query, answer) ==
    Append(history, [query |-> query, answer |-> answer])

\* the longest conversation of the model
MaxHistory == 2

\* SimpleQAChain(MockRetriever()).get_answer(query, doc_id, top_k): an error
\* of retrieve ends the call before add_to_history
GetAnswer(query, doc_id, top_k) ==
    /\ CanCall
    /\ \E out \in retrieve(embFile, metaFile, query, doc_id, top_k) :
           /\ out.ok => Len(conversation_history) < MaxHistory
           /\ conversation_history' =
                  IF out.ok
                  THEN add_to_history(conversation_history, query, format_answer(out.results))
                  ELSE conversation_history
           /\ last' = Call("get_answer", doc_id, <<>>, <<>>, query, top_k, out)
    /\ UNCHANGED <<embFile, metaFile, procFile, zipFile, hashSeed, pc, loc, rng, total_tokens,
                   total_cost, users, sessions, tokens>>

\* SimpleQAChain.add_to_history(query, answer) called on its own: the pair is
\* appended, whatever it is
AddToHistory(query, answer) ==
    /\ CanCall
    /\ Len(conversation_history) < MaxHistory
    /\ conversation_history' = add_to_history(conversation_history, query, answer)
    /\ last' = Call("add_to_history", <<>>, <<>>, <<>>, query, 0, Ok(<<>>))
    /\ UNCHANGED <<embFile, metaFile, procFile, zipFile, hashSeed, pc, loc, rng, total_tokens,
                   total_cost, users, sessions, tokens>>

\* the JSON that process_document writes to data/processed/<doc_id>.json
ProcessedRecord(doc_id, doc_type, document, chunks) ==
    [id |-> doc_id, type |-> doc_type, page_count |-> Len(document),
     chunks |-> ChunkEntries(chunks)]

\* DocumentProcessor.process_document(document, doc_type) at clock reading now;
\* document[0] raises IndexError on a document without pages, after the
\* embeddings manager has written its two files
ProcessDocument(document, doc_type, now) ==
    LET doc_id == MakeDocId(doc_type, now)
        chunks == chunk_document(document)
    IN  /\ CanCall
        /\ embFile' = [embFile EXCEPT ![doc_id] = WrittenFile(MockEmbeddings(chunks))]
        /\ metaFile' = [metaFile EXCEPT ![doc_id] = WrittenFile(MockMetadata(chunks, doc_id))]
        /\ IF Len(document) = 0
           THEN /\ procFile' = procFile
                /\ last' = Call("process_document", doc_id, <<>>, chunks, "", 0,
                                Raise("IndexError"))
           ELSE /\ procFile' = [procFile EXCEPT ![doc_id] =
                        WrittenFile(ProcessedRecord(doc_id, doc_type, document, chunks))]
                /\ last' = Call("process_document", doc_id, <<>>, chunks, "", 0, Ok(<<>>))
        /\ UNCHANGED <<zipFile, hashSeed, memory, pc, loc>>

\* a slip: the metadata file is left out of the archive
ExportDocument_NoMetadata(doc_id) ==
    /\ CanCall
    /\ IF procFile[doc_id].exists
       THEN /\ zipFile' = [zipFile EXCEPT ![doc_id] =
                    [exists |-> TRUE, processed |-> procFile[doc_id],
                     embeddings |-> embFile[doc_id], metadata |-> NoMetaFile]]
            /\ last' = Call("export_document", doc_id, <<>>, <<>>, "", 0, Ok(<<>>))
       ELSE /\ zipFile' = zipFile
            /\ last' = Call("export_document", doc_id, <<>>, <<>>, "", 0,
                            Raise("ValueError: Processed document not found"))
    /\ UNCHANGED <<embFile, metaFile, procFile, hashSeed, memory, pc, loc>>

\* ExportImport.export_document(doc_id)
ExportDocument(doc_id) ==
    /\ CanCall
    /\ IF procFile[doc_id].exists
       THEN /\ zipFile' = [zipFile EXCEPT ![doc_id] =
                    [exists |-> TRUE, processed |-> procFile[doc_id],
                     embeddings |-> embFile[doc_id], metadata |-> metaFile[doc_id]]]
            /\ last' = Call("export_document", doc_id, <<>>, <<>>, "", 0, Ok(<<>>))
       ELSE /\ zipFile' = zipFile
            /\ last' = Call("export_document", doc_id, <<>>, <<>>, "", 0,
                            Raise("ValueError: Processed document not found"))
    /\ UNCHANGED <<embFile, metaFile, procFile, hashSeed, memory, pc, loc>>

\* shutil.copy(src, dst) under "if os.path.exists(src)"
CopyIfExists(src, dst) == IF src.exists THEN src ELSE dst

\* ExportImport.import_document(zip_path) of the archive exported for doc_id
ImportDocument(doc_id) ==
    /\ CanCall
    /\ zipFile[doc_id].exists
    /\ procFile' = [procFile EXCEPT ![doc_id] = CopyIfExists(zipFile[doc_id].processed, @)]
    /\ embFile' = [embFile EXCEPT ![doc_id] = CopyIfExists(zipFile[doc_id].embeddings, @)]
    /\ metaFile' = [metaFile EXCEPT ![doc_id] = CopyIfExists(zipFile[doc_id].metadata, @)]
    /\ last' = Call("import_document", doc_id, <<>>, <<>>, "", 0, Ok(<<>>))
    /\ UNCHANGED <<zipFile, hashSeed, memory, pc, loc>>

\* the caller takes the outcome of its call
Return ==
    /\ Idle
    /\ last.op # "none"
    /\ last' = NoCall
    /\ UNCHANGED <<embFile, metaFile, procFile, zipFile, hashSeed, memory, pc, loc>>

\* a started process: the counters of a new manager, the history of a new
\* SimpleQAChain, a new UserAuth on a users file it has just created
MemoryInit ==
    /\ total_tokens = 0
    /\ total_cost = 0
    /\ conversation_history = <<>>
    /\ users = <<>>
    /\ sessions = {}
    /\ tokens = {}
    /\ rng = Unseeded

Init ==
    /\ embFile = [d \in DocIds |-> NoEmbFile]
    /\ metaFile = [d \in DocIds |-> NoMetaFile]
    /\ procFile = [d \in DocIds |-> NoProcFile]
    /\ zipFile = [d \in DocIds |-> NoZipFile]
    /\ hashSeed \in HashSeeds
    /\ last = NoCall
    /\ pc = [t \in Threads |-> "idle"]
    /\ loc = [t \in Threads |-> NoLocals]
    /\ MemoryInit

\* The store written by the processing pipeline's manager and read by the
\* application's two retrievers.
Next ==
    \/ \E chunks \in ChunkLists, d \in DocIds : EmbedChunks(chunks, d)
    \/ \E d \in DocIds : DeleteDocument(d)
    \/ \E q \in Queries, d \in DocIds, k \in TopKs : Retrieve(q, d, k)
    \/ \E q \in Queries, d \in DocIds, k \in TopKs : RetrieveFromSingleDoc(q, d, k)
    \/ \E q \in Queries, ds \in DocLists, k \in TopKs : RetrieveFromMultipleDocs(q, ds, k)
    \/ Return

Spec == Init /\ [][Next]_vars

\* The store written by EnhancedEmbeddingsManager under its providers.
ProviderNext ==
    \/ \E pr \in {"mock", "openai"}, chunks \in ChunkLists, d \in DocIds, ok \in BOOLEAN :
          EnhancedEmbedChunks(pr, chunks, d, ok)
    \/ \E q \in Queries, d \in DocIds, k \in TopKs : RetrieveFromSingleDoc(q, d, k)
    \/ \E q \in Queries, ds \in DocLists, k \in TopKs : RetrieveFromMultipleDocs(q, ds, k)
    \/ Return

ProviderSpec == Init /\ [][ProviderNext]_vars

\* The life cycle of a record: processed, re-embedded, exported, deleted,
\* imported.
StoreTypes == {<<"lab", "report">>}

StoreDocs == {MakeDocId(ty, ts) : ty \in StoreTypes, ts \in Timestamps}

StoreNext ==
    \/ \E document \in Documents, ty \in StoreTypes, now \in Timestamps :
          ProcessDocument(document, ty, now)
    \/ \E chunks \in ChunkLists, d \in StoreDocs : EmbedChunks(chunks, d)
    \/ \E chunks \in ConcChunkLists, d \in StoreDocs :
          \E embeddings \in
                {<<>>, embed_documents("huggingface", PageContents(chunks), hashSeed).results} :
             EnhancedEmbedChunksResponse("huggingface", chunks, d, embeddings)
    \/ \E d \in StoreDocs : DeleteDocument(d)
    \/ \E d \in StoreDocs : ExportDocument(d)
    \/ \E d \in StoreDocs : ImportDocument(d)
    \/ Return

\* no call of StoreNext reads hashSeed
StoreInit == Init /\ hashSeed = 0

StoreSpec == StoreInit /\ [][StoreNext]_vars

\* A store written by the "huggingface" provider (384 dimensions, as the mock
\* query vectors of MultiDocRetriever) whose library answers with any list.
ResponseNext ==
    \/ \E chunks \in ChunkLists, d \in StoreDocs,
          embeddings \in ProviderResponses("huggingface") :
          EnhancedEmbedChunksResponse("huggingface", chunks, d, embeddings)
    \/ \E q \in Queries, d \in StoreDocs, k \in TopKs : RetrieveFromSingleDoc(q, d, k)
    \/ Return

ResponseSpec == Init /\ [][ResponseNext]_vars

\* Documents of the application's types are processed and searched by type.
TypeNext ==
    \/ \E document \in Documents, ty \in DocTypes, now \in Timestamps :
          ProcessDocument(document, ty, now)
    \/ \E d \in DocIds : DeleteDocument(d)
    \/ \E q \in Queries, ty \in DocTypes, k \in TopKs : RetrieveByType(q, ty, k)
    \/ Return

TypeSpec == Init /\ [][TypeNext]_vars

\* Managers built for each provider, with and without the credential, whose
\* library answers or fails.
ManagerNext ==
    \/ \E pr \in Providers, key \in BOOLEAN, text \in Texts :
          \E answer \in LibraryQueryAnswers(pr) : ManagerEmbedQuery(pr, key, text, answer)
    \/ \E pr \in Providers, key \in BOOLEAN, chunks \in ConcChunkLists :
          \E answer \in LibraryAnswers(pr) : ManagerEmbedDocuments(pr, key, chunks, answer)
    \/ \E pr \in Providers, key \in BOOLEAN, chunks \in ConcChunkLists, d \in StoreDocs :
          \E answer \in LibraryAnswers(pr) : ManagerEmbedChunks(pr, key, chunks, d, answer)
    \/ Return

ManagerSpec == Init /\ [][ManagerNext]_vars

\* Chunkers built with every pair of settings and used on documents.
ChunkerNext ==
    \/ \E cs \in ChunkSizes, co \in ChunkOverlaps : NewTextChunker(cs, co)
    \/ \E cs \in ChunkSizes, co \in ChunkOverlaps, document \in Documents :
          ChunkDocument(cs, co, document)
    \/ Return

ChunkerSpec == Init /\ [][ChunkerNext]_vars

\* The three mock generators called directly, in a process that can be
\* stopped and started again: the files stay, the interpreter's hash
\* randomisation is drawn anew.
Generators == {"MockEmbeddingsManager", "MockRetriever", "EnhancedEmbeddingsManager"}

GeneratorTexts == Texts \cup Queries

\* <generator>._generate_mock_embedding(text) in the running process
GenerateMockEmbedding(generator, text) ==
    /\ Idle
    /\ last' = Call(generator, <<>>, <<>>, <<>>, text, 0,
                    Ok(<<CASE generator = "MockEmbeddingsManager" ->
                               MockEmbeddingsManager_generate_mock_embedding(text)
                           [] generator = "MockRetriever" ->
                               MockRetriever_generate_mock_embedding(text)
                           [] OTHER ->
                               EnhancedEmbeddingsManager_generate_mock_embedding(text, hashSeed)>>))
    /\ UNCHANGED <<embFile, metaFile, procFile, zipFile, hashSeed, memory, pc, loc>>

\* the application's process ends and a new one starts: the files stay, the
\* objects are built anew
Restart ==
    /\ Idle
    /\ hashSeed' \in HashSeeds
    /\ total_tokens' = 0
    /\ total_cost' = 0
    /\ conversation_history' = <<>>
    /\ sessions' = {}
    /\ rng' = Unseeded
    /\ UNCHANGED <<embFile, metaFile, procFile, zipFile, last, pc, loc, users, tokens>>

GeneratorNext ==
    \/ \E g \in Generators, text \in GeneratorTexts : GenerateMockEmbedding(g, text)
    \/ \E chunks \in ChunkLists, d \in StoreDocs : EnhancedEmbedChunks("mock", chunks, d, TRUE)
    \/ \E q \in Queries, d \in StoreDocs, k \in TopKs : RetrieveFromSingleDoc(q, d, k)
    \/ Return
    \/ Restart

GeneratorSpec == Init /\ [][GeneratorNext]_vars

\* One SimpleEmbeddingsManager embeds documents through a provider that
\* answers or fails, on a store from which documents are deleted.
CostNext ==
    \/ \E chunks \in ConcChunkLists, d \in DocIds :
          \E answer \in LibraryAnswers("openai") : SimpleEmbedChunks(chunks, d, answer)
    \/ \E d \in DocIds : DeleteDocument(d)
    \/ Return

CostSpec == Init /\ [][CostNext]_vars

\* The retrievers called with any integer as top_k: the values of the
\* sliders, zero, and their negatives.
AllTopKs == TopKs \cup {0} \cup {0 - k : k \in TopKs}

TopKNext ==
    \/ \E chunks \in ChunkLists, d \in StoreDocs : EmbedChunks(chunks, d)
    \/ \E q \in Queries, d \in StoreDocs, k \in AllTopKs : Retrieve(q, d, k)
    \/ \E q \in Queries, d \in StoreDocs, k \in AllTopKs : RetrieveFromSingleDoc(q, d, k)
    \/ \E q \in Queries, ds \in SeqsUpTo(StoreDocs, MaxDocList), k \in AllTopKs :
          RetrieveFromMultipleDocs(q, ds, k)
    \/ Return

TopKSpec == Init /\ [][TopKNext]_vars

\* The chat of the application: questions on a document that is re-embedded
\* and deleted between them, and on a document that was never stored; and a
\* caller's own add_to_history, with the sentence for no results or with a
\* made-up answer.
QANext ==
    \/ \E chunks \in ConcChunkLists, d \in StoreDocs : EmbedChunks(chunks, d)
    \/ \E d \in StoreDocs : DeleteDocument(d)
    \/ \E q \in Queries, d \in DocIds, k \in TopKs : GetAnswer(q, d, k)
    \/ \E q \in Queries,
          answer \in {format_answer(<<>>), [found |-> TRUE, sources |-> <<"t1">>]} :
          AddToHistory(q, answer)
    \/ Return

\* no call of QANext reads hashSeed
QAInit == Init /\ hashSeed = 0

QASpec == QAInit /\ [][QANext]_vars

----------------------------------------------------------------------------
(* UserAuth: the users file and the sessions of one instance.  A string is  *)
(* the tuple of its characters, so that password + salt is \o.              *)

Usernames == {"alice", "bob"}

Passwords == {<<"p">>, <<"p", "s">>}

\* secrets.token_hex(16): some string, not necessarily a new one
Salts == {<<"s">>, <<"s", "s">>}

\* the number of session tokens secrets.token_hex(32) hands out in the model
MaxSessionTokens == 3

\* secrets.token_hex(32): a string of 256 random bits, taken to differ from
\* every token handed out before
SessionTokens == 1..MaxSessionTokens

\* hashlib.sha256(data).hexdigest(): a function of the data, without
\* collisions
Sha256(data) == <<"sha256">> \o data

\* UserAuth._hash_password(password, salt) with the salt given
hash_password(password, salt) == Sha256(password \o salt)

UsernameExists(username) == \E i \in 1..Len(users) : users[i].username = username

\* authenticate, lines 68-74: the users of that name whose stored hash the
\* password gives with the user's salt
Matching(username, password) ==
    {i \in 1..Len(users) :
        /\ users[i].username = username
        /\ hash_password(password, users[i].salt) = users[i].password_hash}

\* the record of a call on the UserAuth instance
AuthCall(op, username, password, token, ok, message) ==
    [op |-> op, doc_id |-> <<>>, doc_ids |-> <<>>, chunks |-> <<>>, query |-> "",
     top_k |-> 0, out |-> [ok |-> ok, error |-> message, results |-> <<>>],
     username |-> username, password |-> password, token |-> token]

\* UserAuth.register_user(username, password, role), salt being what
\* secrets.token_hex(16) returns
RegisterUser(username, password, role, salt) ==
    /\ CanCall
    /\ IF UsernameExists(username)
       THEN /\ users' = users
            /\ last' = AuthCall("register_user", username, password, 0, FALSE,
                                "Username already exists")
       ELSE /\ users' = Append(users,
                    [username |-> username,
                     password_hash |-> hash_password(password, salt),
                     salt |-> salt, role |-> role])
            /\ last' = AuthCall("register_user", username, password, 0, TRUE,
                                "User registered successfully")
    /\ UNCHANGED <<embFile, metaFile, procFile, zipFile, hashSeed, pc, loc, rng, total_tokens,
                   total_cost, conversation_history, sessions, tokens>>

\* UserAuth.authenticate(username, password)
Authenticate(username, password) ==
    /\ CanCall
    /\ IF Matching(username, password) # {}
       THEN LET i == CHOOSE m \in Matching(username, password) :
                        \A n \in Matching(username, password) : m <= n
            IN  \E session_token \in SessionTokens \ tokens :
                   /\ tokens' = tokens \cup {session_token}
                   /\ sessions' = {x \in sessions : x.token # session_token}
                          \cup {[token |-> session_token, username |-> username,
                                 role |-> users[i].role]}
                   /\ last' = AuthCall("authenticate", username, password, session_token,
                                       TRUE, "")
       ELSE /\ last' = AuthCall("authenticate", username, password, 0, FALSE,
                                "Invalid username or password")
            /\ UNCHANGED <<sessions, tokens>>
    /\ UNCHANGED <<embFile, metaFile, procFile, zipFile, hashSeed, pc, loc, rng, total_tokens,
                   total_cost, conversation_history, users>>

\* session_token in self.sessions
InSessions(session_token) == \E x \in sessions : x.token = session_token

\* UserAuth.validate_session(session_token)
ValidateSession(session_token) ==
    /\ CanCall
    /\ last' = AuthCall("validate_session", "", <<>>, session_token,
                        InSessions(session_token),
                        IF InSessions(session_token) THEN "" ELSE "Invalid session token")
    /\ UNCHANGED <<embFile, metaFile, procFile, zipFile, hashSeed, pc, loc, memory>>

\* a slip: every session of the token's user is removed
Logout_AllOfUser(session_token) ==
    /\ CanCall
    /\ sessions' = {x \in sessions :
            \A y \in sessions : y.token = session_token => x.username # y.username}
    /\ last' = AuthCall("logout", "", <<>>, session_token, InSessions(session_token), "")
    /\ UNCHANGED <<embFile, metaFile, procFile, zipFile, hashSeed, pc, loc, rng, total_tokens,
                   total_cost, conversation_history, users, tokens>>

\* UserAuth.logout(session_token)
Logout(session_token) ==
    /\ CanCall
    /\ sessions' = {x \in sessions : x.token # session_token}
    /\ last' = AuthCall("logout", "", <<>>, session_token, InSessions(session_token), "")
    /\ UNCHANGED <<embFile, metaFile, procFile, zipFile, hashSeed, pc, loc, rng, total_tokens,
                   total_cost, conversation_history, users, tokens>>

\* One UserAuth instance: users register and log in, tokens (also ones never
\* handed out) are validated and logged out.
AuthNext ==
    \/ \E u \in Usernames, p \in Passwords, salt \in Salts : RegisterUser(u, p, "user", salt)
    \/ \E u \in Usernames, p \in Passwords : Authenticate(u, p)
    \/ \E t \in SessionTokens : ValidateSession(t)
    \/ \E t \in SessionTokens : Logout(t)
    \/ Return

\* no call of AuthNext reads hashSeed
AuthInit == Init /\ hashSeed = 0

AuthSpec == AuthInit /\ [][AuthNext]_vars

----------------------------------------------------------------------------
(* The calls statement by statement, for threads that run them at the same *)
(* time (the application serves every browser session in a thread of its   *)
(* own, on the same data directory).                                       *)

Writers == {"w1", "w2"}

Readers == {"r1"}

Goto(t, label) == pc' = [pc EXCEPT ![t] = label]

\* the locals l of a call that opens the file kind at its path, or, with
\* "none", leaves the with block
WithFile(l, kind) ==
    [l EXCEPT !.fd = kind, !.unlinked = FALSE, !.held = NoHeld, !.group = {}]

\* the file call t has open: the one at the path, or the one it holds since
\* it was removed from the path
OpenFile(t, files) ==
    IF loc[t].unlinked THEN loc[t].held[loc[t].fd] ELSE files[loc[t].call.doc_id]

\* the files at the paths after call t has written f into the file it has
\* open: a removed file is at no path
FilesAfterDump(t, files, f) ==
    IF loc[t].unlinked THEN files ELSE [files EXCEPT ![loc[t].call.doc_id] = f]

\* the locals after call t has written f into the file it has open and has
\* left the with block: the calls that hold the same removed file hold f
LocalsAfterDump(t, f) ==
    [u \in Threads |->
        IF u = t THEN WithFile(loc[t], "none")
        ELSE IF /\ loc[t].unlinked /\ loc[u].unlinked
                /\ loc[u].fd = loc[t].fd /\ loc[u].group = loc[t].group
        THEN [loc[u] EXCEPT !.held[loc[t].fd] = f]
        ELSE loc[u]]

\* os.remove(path) of the file kind of doc_id: the calls that have it open
\* keep the file, which is no longer at the path
Unlink(kind, doc_id, files) ==
    LET holders == {u \in Threads : /\ loc[u].fd = kind /\ ~loc[u].unlinked
                                    /\ loc[u].call.doc_id = doc_id}
    IN  loc' = [u \in Threads |->
                   IF u \in holders
                   THEN [loc[u] EXCEPT !.unlinked = TRUE, !.held[kind] = files[doc_id],
                                       !.group = holders]
                   ELSE loc[u]]

\* embed_chunks, lines 27-30: the texts of the chunks
WCall(t, chunks, doc_id) ==
    /\ pc[t] = "idle"
    /\ loc' = [loc EXCEPT ![t] =
            [NoLocals EXCEPT
                !.call = Call("embed_chunks", doc_id, <<>>, chunks, "", 0, Ok(<<>>)),
                !.meta = MockMetadata(chunks, doc_id)]]
    /\ Goto(t, IF chunks = <<>> THEN "w_open_emb" ELSE "w_seed")
    /\ UNCHANGED <<embFile, metaFile, procFile, zipFile, hashSeed, memory, last>>

\* line 33, _generate_mock_embedding of the next text, line 18:
\* np.random.seed sets the state all threads of the process share
WSeed(t) ==
    /\ pc[t] = "w_seed"
    /\ rng' = np_random_seed(loc[t].call.chunks[Len(loc[t].emb) + 1].page_content)
    /\ Goto(t, "w_draw")
    /\ UNCHANGED <<embFile, metaFile, procFile, zipFile, hashSeed, objects, last, loc>>

\* lines 21-23: np.random.randn draws from the state as it is now; the
\* vector is added to the list
WDraw(t) ==
    /\ pc[t] = "w_draw"
    /\ \E v \in NormalizedRandn(rng) : loc' = [loc EXCEPT ![t].emb = Append(@, v)]
    /\ rng' = Unseeded
    /\ Goto(t, IF Len(loc[t].emb) + 1 < Len(loc[t].call.chunks) THEN "w_seed"
               ELSE "w_open_emb")
    /\ UNCHANGED <<embFile, metaFile, procFile, zipFile, hashSeed, objects, last>>

\* line 37: open(embeddings_path, 'wb') creates or truncates the file
WOpenEmb(t) ==
    /\ pc[t] = "w_open_emb"
    /\ embFile' = [embFile EXCEPT ![loc[t].call.doc_id] = TruncatedEmbFile]
    /\ loc' = [loc EXCEPT ![t] = WithFile(loc[t], "emb")]
    /\ Goto(t, "w_dump_emb")
    /\ UNCHANGED <<metaFile, procFile, zipFile, hashSeed, memory, last>>

\* line 38 and the end of the with block: the pickle is written out, from
\* the beginning of the file that line 37 opened. pickle.load reads one
\* pickle and ignores what follows it, so what another writer left behind it
\* does not show.
WDumpEmb(t) ==
    /\ pc[t] = "w_dump_emb"
    /\ embFile' = FilesAfterDump(t, embFile, WrittenFile(loc[t].emb))
    /\ loc' = LocalsAfterDump(t, WrittenFile(loc[t].emb))
    /\ Goto(t, "w_open_meta")
    /\ UNCHANGED <<metaFile, procFile, zipFile, hashSeed, memory, last>>

\* line 56: open(metadata_path, 'w') creates or truncates the file
WOpenMeta(t) ==
    /\ pc[t] = "w_open_meta"
    /\ metaFile' = [metaFile EXCEPT ![loc[t].call.doc_id] = TruncatedMetaFile]
    /\ loc' = [loc EXCEPT ![t] = WithFile(loc[t], "meta")]
    /\ Goto(t, "w_dump_meta")
    /\ UNCHANGED <<embFile, procFile, zipFile, hashSeed, memory, last>>

\* json.dump(metadata, f) into a file opened with 'w' some time ago: the text
\* is written from the beginning of the file, and open truncated only when
\* it was called. In an empty file the text is all there is. Over a text
\* that another writer has dumped since, a text at least as long replaces
\* it and a shorter one leaves its end in place, which json.load refuses
\* (data: the metadata whose end is left). A text is longer when it has more
\* chunks; with as many chunks the digits of processing_time decide.
DumpedMeta(file, metadata) ==
    LET leftover == [exists |-> TRUE, complete |-> FALSE, data |-> file.data]
    IN  IF file.data = NoMeta \/ Len(metadata.chunks) > Len(file.data.chunks)
        THEN {WrittenFile(metadata)}
        ELSE IF Len(metadata.chunks) < Len(file.data.chunks)
        THEN {leftover}
        ELSE {WrittenFile(metadata), leftover}

\* line 57 and the end of the with block: the JSON is written out, into the
\* file that line 56 opened; the call returns
WDumpMeta(t) ==
    /\ pc[t] = "w_dump_meta"
    /\ \E f \in DumpedMeta(OpenFile(t, metaFile), loc[t].meta) :
           /\ metaFile' = FilesAfterDump(t, metaFile, f)
           /\ loc' = LocalsAfterDump(t, f)
    /\ Goto(t, "done")
    /\ UNCHANGED <<embFile, procFile, zipFile, hashSeed, memory, last>>

\* MockRetriever.retrieve is called
RCall(t, query, doc_id, top_k) ==
    /\ pc[t] = "idle"
    /\ loc' = [loc EXCEPT ![t] =
            [NoLocals EXCEPT
                !.call = Call("retrieve", doc_id, <<>>, <<>>, query, top_k, Ok(<<>>))]]
    /\ Goto(t, "r_exists")
    /\ UNCHANGED <<embFile, metaFile, procFile, zipFile, hashSeed, memory, last>>

\* the call ends with out; a with block it is in closes its file
Finish(t, out) ==
    /\ loc' = [loc EXCEPT ![t] = [WithFile(loc[t], "none") EXCEPT !.call.out = out]]
    /\ Goto(t, "done")

\* retrieve, lines 107-108: os.path.exists(embeddings_path)
RExists(t) ==
    /\ pc[t] = "r_exists"
    /\ IF embFile[loc[t].call.doc_id].exists
       THEN Goto(t, "r_open_emb") /\ loc' = loc
       ELSE Finish(t, Raise(NotFound))
    /\ UNCHANGED <<embFile, metaFile, procFile, zipFile, hashSeed, memory, last>>

\* retrieve, line 110: open(embeddings_path, 'rb')
ROpenEmb(t) ==
    /\ pc[t] = "r_open_emb"
    /\ IF embFile[loc[t].call.doc_id].exists
       THEN Goto(t, "r_load_emb") /\ loc' = [loc EXCEPT ![t] = WithFile(loc[t], "emb")]
       ELSE Finish(t, Raise("FileNotFoundError"))
    /\ UNCHANGED <<embFile, metaFile, procFile, zipFile, hashSeed, memory, last>>

\* retrieve, line 111: pickle.load from the open file
RLoadEmb(t) ==
    LET f == OpenFile(t, embFile)
    IN  /\ pc[t] = "r_load_emb"
        /\ IF ~f.complete THEN Finish(t, Raise("EOFError"))
           ELSE /\ loc' = [loc EXCEPT ![t] = [WithFile(loc[t], "none") EXCEPT !.emb = f.data]]
                /\ Goto(t, "r_open_meta")
        /\ UNCHANGED <<embFile, metaFile, procFile, zipFile, hashSeed, memory, last>>

\* retrieve, line 115: open(metadata_path, 'r')
ROpenMeta(t) ==
    /\ pc[t] = "r_open_meta"
    /\ IF metaFile[loc[t].call.doc_id].exists
       THEN Goto(t, "r_load_meta") /\ loc' = [loc EXCEPT ![t] = WithFile(loc[t], "meta")]
       ELSE Finish(t, Raise("FileNotFoundError"))
    /\ UNCHANGED <<embFile, metaFile, procFile, zipFile, hashSeed, memory, last>>

\* retrieve, line 116: json.load from the open file
RLoadMeta(t) ==
    LET f == OpenFile(t, metaFile)
    IN  /\ pc[t] = "r_load_meta"
        /\ IF ~f.complete THEN Finish(t, Raise("JSONDecodeError"))
           ELSE /\ loc' = [loc EXCEPT ![t] = [WithFile(loc[t], "none") EXCEPT !.meta = f.data]]
                /\ Goto(t, "r_seed")
        /\ UNCHANGED <<embFile, metaFile, procFile, zipFile, hashSeed, memory, last>>

\* retrieve, line 119, _generate_mock_embedding(query), line 77:
\* np.random.seed
RSeed(t) ==
    /\ pc[t] = "r_seed"
    /\ rng' = np_random_seed(loc[t].call.query)
    /\ Goto(t, "r_draw")
    /\ UNCHANGED <<embFile, metaFile, procFile, zipFile, hashSeed, objects, last, loc>>

\* retrieve, lines 80-139: np.random.randn draws the query vector from the
\* state as it is now; then the ranking of what was loaded
RDraw(t) ==
    LET c == loc[t].call
    IN  /\ pc[t] = "r_draw"
        /\ \E query_embedding \in NormalizedRandn(rng) :
              \E out \in RetrieveOutcomes(WrittenFile(loc[t].emb), WrittenFile(loc[t].meta),
                                          query_embedding, c.doc_id, c.top_k, FALSE) :
                  Finish(t, out)
        /\ rng' = Unseeded
        /\ UNCHANGED <<embFile, metaFile, procFile, zipFile, hashSeed, objects, last>>

\* DocumentManager.delete_document is called
DCall(t, doc_id) ==
    /\ pc[t] = "idle"
    /\ loc' = [loc EXCEPT ![t] =
            [NoLocals EXCEPT
                !.call = Call("delete_document", doc_id, <<>>, <<>>, "", 0, Ok(<<>>))]]
    /\ Goto(t, "d_proc_exists")
    /\ UNCHANGED <<embFile, metaFile, procFile, zipFile, hashSeed, memory, last>>

\* delete_document, lines 56, 61 and 66: os.path.exists(path) of the
\* processed, the embeddings and the metadata file; a file that is there is
\* removed next, one that is not is passed over (after the third, line 69
\* returns True)
DExists(t) ==
    LET d == loc[t].call.doc_id
    IN  /\ pc[t] \in {"d_proc_exists", "d_emb_exists", "d_meta_exists"}
        /\ Goto(t, CASE pc[t] = "d_proc_exists" ->
                            IF procFile[d].exists THEN "d_proc" ELSE "d_emb_exists"
                     [] pc[t] = "d_emb_exists" ->
                            IF embFile[d].exists THEN "d_emb" ELSE "d_meta_exists"
                     [] OTHER ->
                            IF metaFile[d].exists THEN "d_meta" ELSE "done")
        /\ UNCHANGED <<embFile, metaFile, procFile, zipFile, hashSeed, memory, last, loc>>

\* line 57: os.remove(processed_path); it raises when the file has been
\* removed since line 56 saw it, and the call ends there
DRemoveProc(t) ==
    /\ pc[t] = "d_proc"
    /\ IF procFile[loc[t].call.doc_id].exists
       THEN /\ procFile' = [procFile EXCEPT ![loc[t].call.doc_id] = NoProcFile]
            /\ Goto(t, "d_emb_exists")
            /\ loc' = loc
       ELSE /\ Finish(t, Raise("FileNotFoundError"))
            /\ procFile' = procFile
    /\ UNCHANGED <<embFile, metaFile, zipFile, hashSeed, memory, last>>

\* line 62: os.remove(embeddings_path), likewise
DRemoveEmb(t) ==
    /\ pc[t] = "d_emb"
    /\ IF embFile[loc[t].call.doc_id].exists
       THEN /\ embFile' = [embFile EXCEPT ![loc[t].call.doc_id] = NoEmbFile]
            /\ Unlink("emb", loc[t].call.doc_id, embFile)
            /\ Goto(t, "d_meta_exists")
       ELSE /\ Finish(t, Raise("FileNotFoundError"))
            /\ embFile' = embFile
    /\ UNCHANGED <<metaFile, procFile, zipFile, hashSeed, memory, last>>

\* lines 67-69: os.remove(metadata_path), likewise; the call returns True
DRemoveMeta(t) ==
    /\ pc[t] = "d_meta"
    /\ IF metaFile[loc[t].call.doc_id].exists
       THEN /\ metaFile' = [metaFile EXCEPT ![loc[t].call.doc_id] = NoMetaFile]
            /\ Unlink("meta", loc[t].call.doc_id, metaFile)
            /\ Goto(t, "done")
       ELSE /\ Finish(t, Raise("FileNotFoundError"))
            /\ metaFile' = metaFile
    /\ UNCHANGED <<embFile, procFile, zipFile, hashSeed, memory, last>>

\* the caller takes the outcome of the call
ThreadReturn(t) ==
    /\ pc[t] = "done"
    /\ pc' = [pc EXCEPT ![t] = "idle"]
    /\ loc' = [loc EXCEPT ![t] = NoLocals]
    /\ UNCHANGED <<embFile, metaFile, procFile, zipFile, hashSeed, memory, last>>

ConcNext ==
    \/ \E t \in Writers, chunks \in ConcChunkLists, d \in StoreDocs : WCall(t, chunks, d)
    \/ \E t \in Writers : WSeed(t)
    \/ \E t \in Writers : WDraw(t)
    \/ \E t \in Writers : WOpenEmb(t)
    \/ \E t \in Writers : WDumpEmb(t)
    \/ \E t \in Writers : WOpenMeta(t)
    \/ \E t \in Writers : WDumpMeta(t)
    \/ \E t \in Readers, d \in StoreDocs : RCall(t, "q", d, MaxTopK)
    \/ \E t \in Readers : RExists(t)
    \/ \E t \in Readers : ROpenEmb(t)
    \/ \E t \in Readers : RLoadEmb(t)
    \/ \E t \in Readers : ROpenMeta(t)
    \/ \E t \in Readers : RLoadMeta(t)
    \/ \E t \in Readers : RSeed(t)
    \/ \E t \in Readers : RDraw(t)
    \/ \E t \in Threads : ThreadReturn(t)

\* no call of ConcNext reads hashSeed
ConcInit == Init /\ hashSeed = 0

ConcSpec == ConcInit /\ [][ConcNext]_vars

\* One thread re-embeds and another deletes a document while a third
\* retrieves, from a store that earlier process_document calls have filled.
InitDocuments == SeqsUpTo(Texts, MaxConcChunks) \ {<<>>}

\* the three files as process_document(document, doc_type) leaves them
ProcessedStore(d, document) ==
    [emb |-> WrittenFile(MockEmbeddings(chunk_document(document))),
     meta |-> WrittenFile(MockMetadata(chunk_document(document), d)),
     proc |-> WrittenFile(ProcessedRecord(d, SubSeq(d, 1, Len(d) - 1), document,
                                          chunk_document(document)))]

InterleaveInit ==
    /\ \E stored \in [DocIds -> InitDocuments \cup {<<>>}] :
          /\ embFile = [d \in DocIds |-> IF stored[d] = <<>> THEN NoEmbFile
                                         ELSE ProcessedStore(d, stored[d]).emb]
          /\ metaFile = [d \in DocIds |-> IF stored[d] = <<>> THEN NoMetaFile
                                          ELSE ProcessedStore(d, stored[d]).meta]
          /\ procFile = [d \in DocIds |-> IF stored[d] = <<>> THEN NoProcFile
                                          ELSE ProcessedStore(d, stored[d]).proc]
    /\ zipFile = [d \in DocIds |-> NoZipFile]
    /\ hashSeed = 0
    /\ last = NoCall
    /\ pc = [t \in Threads |-> "idle"]
    /\ loc = [t \in Threads |-> NoLocals]
    /\ MemoryInit

InterleaveNext ==
    \/ \E chunks \in ConcChunkLists, d \in StoreDocs : WCall("w1", chunks, d)
    \/ WSeed("w1")
    \/ WDraw("w1")
    \/ WOpenEmb("w1")
    \/ WDumpEmb("w1")
    \/ WOpenMeta("w1")
    \/ WDumpMeta("w1")
    \/ \E t \in Writers, d \in StoreDocs : DCall(t, d)
    \/ \E t \in Writers : DExists(t)
    \/ \E t \in Writers : DRemoveProc(t)
    \/ \E t \in Writers : DRemoveEmb(t)
    \/ \E t \in Writers : DRemoveMeta(t)
    \/ \E d \in DocIds : RCall("r1", "q", d, MaxTopK)
    \/ RExists("r1")
    \/ ROpenEmb("r1")
    \/ RLoadEmb("r1")
    \/ ROpenMeta("r1")
    \/ RLoadMeta("r1")
    \/ RSeed("r1")
    \/ RDraw("r1")
    \/ \E t \in Threads : ThreadReturn(t)

InterleaveSpec == InterleaveInit /\ [][InterleaveNext]_vars

----------------------------------------------------------------------------
(* Properties *)

HasRecord(doc_id) == embFile[doc_id].exists \/ metaFile[doc_id].exists

Readable(doc_id) ==
    /\ embFile[doc_id].exists /\ embFile[doc_id].complete
    /\ metaFile[doc_id].exists /\ metaFile[doc_id].complete

\* the vector the generator named in a record's metadata gives for a content
GeneratedFor(meta, content) ==
    IF meta.embedding_provider \in {"openai", "huggingface", "mock"}
    THEN embed_query(meta.embedding_provider, content, hashSeed).results[1]
    ELSE MockEmbeddingsManager_generate_mock_embedding(content)

AlignedRecord(vectors, meta) ==
    /\ Len(vectors) = Len(meta.chunks)
    /\ \A i \in 1..Len(vectors) : vectors[i] = GeneratedFor(meta, meta.chunks[i].content)

\* C1: in every state that completed embed_chunks (of MockEmbeddingsManager and
\* of EnhancedEmbeddingsManager), process_document, delete_document,
\* export_document and import_document calls reach, every
\* stored document has both of its lists, the vector list and the
\* chunk-metadata list have the same length, and the vector at index i is the
\* vector generated for the content of the chunk at index i.
C1_Alignment ==
    \A d \in DocIds :
        /\ embFile[d].exists <=> metaFile[d].exists
        /\ HasRecord(d) => /\ Readable(d)
                           /\ AlignedRecord(embFile[d].data, metaFile[d].data)

\* C4: when embed_chunks(chunks, doc_id) has returned, the two lists read for
\* doc_id have the length of chunks and hold, position by position, the
\* vector of each chunk's content and the chunk's content and index; nothing
\* of an earlier record remains.
C4_WriteReadRoundTrip ==
    last.op = "embed_chunks" /\ last.out.ok =>
        LET d == last.doc_id
            vectors == embFile[d].data
            chunks == metaFile[d].data.chunks
        IN  /\ Readable(d)
            /\ Len(vectors) = Len(last.chunks)
            /\ Len(chunks) = Len(last.chunks)
            /\ metaFile[d].data.chunk_count = Len(last.chunks)
            /\ \A i \in 1..Len(last.chunks) :
                   /\ vectors[i] = Md5Embedding(last.chunks[i].page_content)
                   /\ chunks[i].content = last.chunks[i].page_content
                   /\ chunks[i].metadata = last.chunks[i].metadata
                   /\ chunks[i].chunk_id = i - 1

\* embed_chunks has replaced the record of a processed document (which had
\* two chunks when it was processed) by a record of one chunk
C4_Witness ==
    /\ last.op = "embed_chunks"
    /\ Len(last.chunks) = 1
    /\ procFile[last.doc_id].exists
    /\ Len(procFile[last.doc_id].data.chunks) = 2

QueryOfRetrieve == MockRetriever_generate_mock_embedding(last.query)

QueryOfMulti == embed_query("mock", last.query, hashSeed).results[1]

NonIncreasing(results) ==
    \A i \in 1..(Len(results) - 1) : results[i].score >= results[i + 1].score

\* C5: retrieve and retrieve_from_single_doc on a doc_id that has no store
\* record fail with the Not-Found ValueError; they return no list and raise
\* nothing else.
C5_MissingIsNotFound ==
    /\ last.op \in {"retrieve", "retrieve_from_single_doc"}
    /\ ~HasRecord(last.doc_id)
    => last.out = Raise(NotFound)

\* retrieve was called on a doc_id without a record while another document
\* is stored
C5_Witness ==
    /\ last.op = "retrieve"
    /\ ~HasRecord(last.doc_id)
    /\ \E d \in DocIds : Readable(d) /\ Len(embFile[d].data) >= 1

\* C6: for top_k >= 1 and a document of n stored chunks, retrieve returns
\* without error exactly min(top_k, n) results, each a different chunk with
\* that chunk's similarity as its score, in non-increasing order of score,
\* and every returned score is >= the similarity of every chunk not returned.
C6_TopKHighest ==
    last.op = "retrieve" /\ last.top_k >= 1 /\ Readable(last.doc_id) =>
        LET vectors == embFile[last.doc_id].data
            n == Len(vectors)
            sims == Similarities(QueryOfRetrieve, vectors)
            res == last.out.results
            returned == {res[i].chunk_id : i \in 1..Len(res)}
        IN  /\ last.out.ok
            /\ Len(res) = Min(last.top_k, n)
            /\ Cardinality(returned) = Len(res)
            /\ returned \subseteq 0..(n - 1)
            /\ \A i \in 1..Len(res) : res[i].score = sims[res[i].chunk_id + 1]
            /\ NonIncreasing(res)
            /\ \A i \in 1..Len(res) : \A j \in (0..(n - 1)) \ returned :
                   res[i].score >= sims[j + 1]

\* retrieve with top_k = 1 on a document of two chunks of different
\* similarity
C6_Witness ==
    /\ last.op = "retrieve"
    /\ last.top_k = 1
    /\ Readable(last.doc_id)
    /\ Len(embFile[last.doc_id].data) = 2
    /\ LET sims == Similarities(QueryOfRetrieve, embFile[last.doc_id].data)
       IN  sims[1] # sims[2]
    /\ Len(last.out.results) = 1

\* C7: whenever two chunks have equal similarity to the query, the one with
\* the lower chunk index is ranked first, and is the one kept when only one
\* fits within top_k, in retrieve and in the merged result of
\* retrieve_from_multiple_docs.
C7_TiesAscendingIndex ==
    /\ last.op = "retrieve" /\ last.out.ok =>
          LET res == last.out.results
              sims == Similarities(QueryOfRetrieve, embFile[last.doc_id].data)
              returned == {res[i].chunk_id : i \in 1..Len(res)}
          IN  /\ \A i, j \in 1..Len(res) :
                     i < j /\ res[i].score = res[j].score => res[i].chunk_id < res[j].chunk_id
              /\ \A i \in 1..Len(res) : \A j \in (0..(Len(sims) - 1)) \ returned :
                     sims[j + 1] = res[i].score => res[i].chunk_id < j
    /\ last.op = "retrieve_from_multiple_docs" /\ last.out.ok =>
          LET res == last.out.results
          IN  \A i, j \in 1..Len(res) :
                 /\ i < j
                 /\ res[i].score = res[j].score
                 /\ res[i].doc_id = res[j].doc_id
                 => res[i].chunk_id <= res[j].chunk_id

RECURSIVE PresentIds(_, _)
PresentIds(doc_ids, i) ==
    IF i > Len(doc_ids) THEN <<>>
    ELSE (IF HasRecord(doc_ids[i]) THEN <<doc_ids[i]>> ELSE <<>>) \o PresentIds(doc_ids, i + 1)

\* C8: retrieve_from_multiple_docs on a list in which some ids have no store
\* record does not raise, returns no result of a missing id, and returns
\* what it returns for the list without the missing ids.
C8_PartialFailure ==
    last.op = "retrieve_from_multiple_docs" =>
        /\ last.out.ok
        /\ \A i \in 1..Len(last.out.results) : HasRecord(last.out.results[i].doc_id)
        /\ last.out \in retrieve_from_multiple_docs(embFile, metaFile, "mock", hashSeed,
                             last.query, PresentIds(last.doc_ids, 1), last.top_k)

\* a list with a missing id and a stored one gave results
C8_Witness ==
    /\ last.op = "retrieve_from_multiple_docs"
    /\ \E i \in 1..Len(last.doc_ids) : ~HasRecord(last.doc_ids[i])
    /\ \E i \in 1..Len(last.doc_ids) : HasRecord(last.doc_ids[i])
    /\ Len(last.out.results) >= 1

RECURSIVE LocalCandidates(_, _, _)
LocalCandidates(doc_ids, i, top_k) ==
    IF i > Len(doc_ids) THEN 0
    ELSE (IF Readable(doc_ids[i]) THEN Min(top_k, Len(embFile[doc_ids[i]].data)) ELSE 0)
         + LocalCandidates(doc_ids, i + 1, top_k)

\* C9: for top_k >= 1, retrieve_from_multiple_docs returns exactly
\* min(top_k, number of local candidates) results, each with a doc_id that is
\* in doc_ids, in non-increasing order of score.
C9_MultiTopK ==
    last.op = "retrieve_from_multiple_docs" /\ last.top_k >= 1 =>
        LET res == last.out.results
        IN  /\ last.out.ok
            /\ Len(res) = Min(last.top_k, LocalCandidates(last.doc_ids, 1, last.top_k))
            /\ \A i \in 1..Len(res) :
                   \E j \in 1..Len(last.doc_ids) : res[i].doc_id = last.doc_ids[j]
            /\ NonIncreasing(res)

\* two stored documents with three local candidates between them, top_k = 2:
\* two results, of different scores, one from each document
C9_Witness ==
    /\ last.op = "retrieve_from_multiple_docs"
    /\ last.top_k = 2
    /\ Len(last.doc_ids) = 2
    /\ last.doc_ids[1] # last.doc_ids[2]
    /\ LocalCandidates(last.doc_ids, 1, last.top_k) = 3
    /\ Len(last.out.results) = 2
    /\ last.out.results[1].doc_id # last.out.results[2].doc_id
    /\ last.out.results[1].score > last.out.results[2].score

DimensionMismatch(query_embedding, doc_id) ==
    /\ Readable(doc_id)
    /\ \E i \in 1..Len(embFile[doc_id].data) :
           ~ShapesAligned(query_embedding, embFile[doc_id].data[i])

\* C10: when the dimension of the query vector differs from the dimension of
\* the vectors stored for a doc_id, retrieve_from_single_doc and
\* retrieve_from_multiple_docs fail with an error; they return no result
\* list and do not skip the document.
C10_DimensionMismatchSurfaced ==
    /\ last.op = "retrieve_from_single_doc" /\ DimensionMismatch(QueryOfMulti, last.doc_id)
       => ~last.out.ok
    /\ /\ last.op = "retrieve_from_multiple_docs"
       /\ \E i \in 1..Len(last.doc_ids) : DimensionMismatch(QueryOfMulti, last.doc_ids[i])
       => ~last.out.ok

\* C2: what a retrieve that runs beside embed_chunks has loaded is a complete
\* record (the vector list and the metadata of one embed_chunks call), or it
\* has found no record; it never holds the vector list of one write with the
\* metadata of another or with none.
C2_AtomicWrite ==
    \A t \in Readers :
        pc[t] = "done" =>
            \/ loc[t].call.out = Raise(NotFound)
            \/ /\ loc[t].call.out.ok
               /\ \E chunks \in ConcChunkLists :
                      /\ loc[t].emb = MockEmbeddings(chunks)
                      /\ loc[t].meta = MockMetadata(chunks, loc[t].call.doc_id)

\* C3: when two embed_chunks calls for the same doc_id with different chunk
\* lists have both returned, the stored record is the vector list and the
\* metadata of one of the two calls.
C3_WritersSerialized ==
    \A t, u \in Writers :
        /\ t # u
        /\ pc[t] = "done" /\ pc[u] = "done"
        /\ loc[t].call.doc_id = loc[u].call.doc_id
        /\ loc[t].call.chunks # loc[u].call.chunks
        => \E w \in {t, u} :
              /\ embFile[loc[w].call.doc_id] = WrittenFile(loc[w].emb)
              /\ metaFile[loc[w].call.doc_id] = WrittenFile(loc[w].meta)

\* C11: when the provider returns a vector list whose length differs from the
\* number of chunks, embed_chunks fails and leaves both files of doc_id as
\* they were; and retrieve_from_single_doc on a record whose two lists differ
\* in length does not return a result list.
C11_LengthMismatchFatal ==
    [][/\ \A chunks \in ChunkLists, d \in StoreDocs,
             embeddings \in ProviderResponses("huggingface") :
             /\ EnhancedEmbedChunksResponse("huggingface", chunks, d, embeddings)
             /\ Len(embeddings) # Len(chunks)
             => /\ ~last'.out.ok
                /\ embFile' = embFile
                /\ metaFile' = metaFile
       /\ /\ last.op = "none"
          /\ last'.op = "retrieve_from_single_doc"
          /\ Readable(last'.doc_id)
          /\ Len(embFile[last'.doc_id].data) # Len(metaFile[last'.doc_id].data.chunks)
          => ~last'.out.ok]_vars

\* C12: each mock generator returns the same vector for the same text on
\* every call: a call of a generator that follows a call of the same
\* generator with the same text, in the same process or after a restart of
\* the process, returns what the earlier call returned.
C12_MockDeterminism ==
    [][/\ last.op \in Generators
       /\ last'.op = last.op
       /\ last'.query = last.query
       => last'.out = last.out]_vars

ListedIds(listing) == {e.doc_id : e \in listing.results}

\* C13: delete_document(doc_id) does not raise; when it has returned, doc_id
\* has no vector list, no chunk metadata and no processed record, no listing
\* names it and retrieve on it fails with Not-Found; and a delete_document of
\* a doc_id that has none of the three files leaves the store as it was.
C13_DeleteIdempotent ==
    /\ [](last.op = "delete_document" =>
            LET d == last.doc_id
            IN  /\ last.out.ok
                /\ ~embFile[d].exists /\ ~metaFile[d].exists /\ ~procFile[d].exists
                /\ list_available_documents(metaFile).ok
                /\ d \notin ListedIds(list_available_documents(metaFile))
                /\ d \notin ListedIds(multi_list_available_documents(metaFile))
                /\ d \notin {e.id : e \in list_processed_documents(procFile).results}
                /\ \A q \in Queries, k \in TopKs :
                       /\ retrieve(embFile, metaFile, q, d, k) = {Raise(NotFound)}
                       /\ retrieve_from_single_doc(embFile, metaFile, "mock", hashSeed,
                                                   q, d, k) = {Raise(NotFound)})
    /\ [][\A d \in DocIds :
             /\ last'.op = "delete_document" /\ last'.doc_id = d /\ last.op = "none"
             /\ ~embFile[d].exists /\ ~metaFile[d].exists /\ ~procFile[d].exists
             => /\ last'.out.ok
                /\ UNCHANGED <<embFile, metaFile, procFile, zipFile>>]_vars

\* a processed document with chunks has been deleted while its export exists
C13_Witness ==
    /\ last.op = "delete_document"
    /\ zipFile[last.doc_id].exists
    /\ zipFile[last.doc_id].embeddings.exists
    /\ Len(zipFile[last.doc_id].embeddings.data) >= 1
    /\ ~embFile[last.doc_id].exists

\* what is not a missing-record failure of retrieve
NotMissing(out) == out # Raise(NotFound) /\ out # Raise("FileNotFoundError")

\* C14: in every store state, also while a write or a delete is under way
\* or was cut short, list_available_documents returns, every doc_id it lists
\* is one on which retrieve does not fail for a missing record, and every
\* doc_id on which retrieve returns results is listed.
C14_ListMatchesReadable ==
    LET listing == list_available_documents(metaFile)
    IN  /\ listing.ok
        /\ \A d \in DocIds :
               LET outs == retrieve(embFile, metaFile, "q", d, MaxTopK)
               IN  /\ d \in ListedIds(listing) => \A out \in outs : NotMissing(out)
                   /\ (\E out \in outs : out.ok) => d \in ListedIds(listing)

\* the doc_type that process_document built doc_id from
ProcessedWithType(doc_id) == SubSeq(doc_id, 1, Len(doc_id) - 1)

\* C15: retrieve_by_type(query, doc_type, top_k) hands to
\* retrieve_from_multiple_docs exactly the documents that process_document
\* stored with that doc_type: each of them, and none processed with another
\* type.
C15_RetrieveByTypeExact ==
    last.op = "retrieve_by_type" =>
        /\ last.out.ok
        /\ \A d \in DocIds :
               LET passed == \E i \in 1..Len(last.doc_ids) : last.doc_ids[i] = d
               IN  /\ procFile[d].exists /\ procFile[d].data.type = last.doc_id => passed
                   /\ passed => ProcessedWithType(d) = last.doc_id

MockModelName == "mock_embeddings"

\* C16: a manager built for a provider other than "mock" returns from
\* embed_query and embed_documents only what the provider's library answered,
\* an error of the library or of the construction reaches the caller and
\* leaves nothing written, no record written for such a provider carries the
\* mock model name, and with provider "openai" and no credential the
\* construction fails.
C16_ProviderFailuresSurfaced ==
    /\ \A d \in DocIds :
           metaFile[d].exists /\ metaFile[d].data.embedding_provider # "mock"
           => metaFile[d].data.embedding_model # MockModelName
    /\ last.op \in {"embed_query", "embed_documents", "embed_chunks"} /\ last.provider # "mock"
       => /\ last.provider = "openai" /\ ~last.api_key_set
             => last.out = Raise("ValueError: OpenAI API key not found")
          /\ last.op # "embed_chunks" /\ last.out.ok => last.out = last.answer
          /\ last.op = "embed_chunks" /\ last.out.ok
             => /\ last.answer.ok
                /\ embFile[last.doc_id] = WrittenFile(last.answer.results)
          /\ ~last.answer.ok => ~last.out.ok

\* the library of a provider failed during embed_chunks on a document that
\* an earlier call had stored
C16_Witness ==
    /\ last.op = "embed_chunks"
    /\ last.provider = "huggingface"
    /\ ~last.answer.ok
    /\ last.out = Raise("ProviderError")
    /\ Readable(last.doc_id)

\* C18: chunk_document never runs on a chunker whose settings violate
\* chunk_size > 0 and chunk_overlap < chunk_size: with such settings the
\* construction, and with it the call, ends in an error.
C18_InvalidConfigRejected ==
    /\ last.op \in {"TextChunker", "chunk_document"}
    /\ ~(last.chunk_size > 0 /\ last.chunk_overlap < last.chunk_size)
    => ~last.out.ok

\* C19: process_document on a document without pages returns without
\* raising, with an empty chunk list whose statistics are all zero, and leaves
\* a record of zero chunks on which retrieve returns an empty list.
C19_EmptyDocumentNotAnError ==
    last.op = "process_document" /\ last.chunks = <<>> =>
        /\ last.out.ok
        /\ get_chunk_stats(last.chunks) =
               [total_chunks |-> 0, total_tokens |-> 0, avg_tokens_per_chunk |-> 0,
                max_tokens |-> 0, min_tokens |-> 0]
        /\ Readable(last.doc_id)
        /\ metaFile[last.doc_id].data.chunk_count = 0
        /\ \A q \in Queries, k \in TopKs :
               retrieve(embFile, metaFile, q, last.doc_id, k) = {Ok(<<>>)}

\* the doc_id a thread's step works on
DocOfStep(t) == IF pc[t] = "idle" THEN loc'[t].call.doc_id ELSE loc[t].call.doc_id

\* C20: every step of an embed_chunks(_, A) or delete_document(A) that runs
\* beside other calls leaves the vector list, the chunk metadata and the
\* processed record of every other doc_id as they were, and a retrieve of a
\* doc_id on which no such call works returns, whatever runs meanwhile, what
\* retrieve gives for that doc_id's stored record.
C20_IndependentDocIds ==
    /\ [][\A t \in {"w1", "w2"} :
             pc'[t] # pc[t] =>
                 \A b \in DocIds \ {DocOfStep(t)} :
                     /\ embFile'[b] = embFile[b]
                     /\ metaFile'[b] = metaFile[b]
                     /\ procFile'[b] = procFile[b]]_vars
    /\ [](\A r \in Readers :
             pc[r] = "done" /\ loc[r].call.doc_id \notin StoreDocs =>
                 loc[r].call.out \in retrieve(embFile, metaFile, loc[r].call.query,
                                              loc[r].call.doc_id, loc[r].call.top_k))

\* d has the three files process_document writes
Stored(d) == procFile[d].exists /\ procFile[d].complete /\ Readable(d)

NoFiles(d) == ~procFile[d].exists /\ ~embFile[d].exists /\ ~metaFile[d].exists

RECURSIVE GlobalScores(_, _, _)
GlobalScores(query_embedding, doc_ids, i) ==
    IF i > Len(doc_ids) THEN <<>>
    ELSE Similarities(query_embedding, embFile[doc_ids[i]].data)
             \o GlobalScores(query_embedding, doc_ids, i + 1)

\* a sequence of numbers in non-increasing order
RECURSIVE Descending(_)
Descending(s) ==
    IF s = <<>> THEN <<>>
    ELSE LET n == Len(s)
             sorted == Descending(SubSeq(s, 1, n - 1))
             k == Cardinality({i \in 1..(n - 1) : sorted[i] >= s[n]})
         IN  SubSeq(sorted, 1, k) \o <<s[n]>> \o SubSeq(sorted, k + 1, n - 1)

\* C22: for top_k >= 1 and a list of distinct doc_ids each with a readable
\* record, the scores of the results of retrieve_from_multiple_docs, in the
\* order returned, are the top_k highest similarities over all chunks of all
\* those documents.
C22_MergeExact ==
    /\ last.op = "retrieve_from_multiple_docs"
    /\ last.top_k >= 1
    /\ Injective(last.doc_ids)
    /\ \A i \in 1..Len(last.doc_ids) : Readable(last.doc_ids[i])
    => LET res == last.out.results
           ranked == Descending(GlobalScores(QueryOfMulti, last.doc_ids, 1))
       IN  /\ last.out.ok
           /\ [i \in 1..Len(res) |-> res[i].score]
                  = SubSeq(ranked, 1, Min(last.top_k, Len(ranked)))

\* two documents, top_k = 2: both results are chunks of one document, whose
\* two chunks score higher than the chunk of the other
C22_Witness ==
    /\ last.op = "retrieve_from_multiple_docs"
    /\ last.top_k = 2
    /\ Len(last.doc_ids) = 2
    /\ last.doc_ids[1] # last.doc_ids[2]
    /\ \A i \in 1..2 : Readable(last.doc_ids[i]) /\ Len(embFile[last.doc_ids[i]].data) >= 1
    /\ Len(last.out.results) = 2
    /\ last.out.results[1].doc_id = last.out.results[2].doc_id
    /\ \A i \in 1..2 :
           last.doc_ids[i] # last.out.results[1].doc_id =>
               \A j \in 1..Len(embFile[last.doc_ids[i]].data) :
                   cosine_similarity(QueryOfMulti, embFile[last.doc_ids[i]].data[j])
                       < last.out.results[2].score

\* a result of retrieve_from_single_doc without its doc_id tag
Untagged(results) ==
    [i \in 1..Len(results) |->
        [chunk_id |-> results[i].chunk_id, content |-> results[i].content,
         score |-> results[i].score, metadata |-> results[i].metadata]]

\* C23: on a record written by MockEmbeddingsManager, the query vector that
\* MultiDocRetriever (provider "mock") computes for a text is the vector the
\* manager stores for a chunk of that content and is the query vector of
\* MockRetriever, so a chunk whose content is the query scores 1 and
\* retrieve_from_single_doc returns the ranking that retrieve returns.
C23_SameGenerator ==
    /\ last.op = "retrieve_from_single_doc"
    /\ Readable(last.doc_id)
    /\ \E i \in 1..Len(metaFile[last.doc_id].data.chunks) :
           metaFile[last.doc_id].data.chunks[i].content = last.query
    =>  /\ QueryOfMulti = MockEmbeddingsManager_generate_mock_embedding(last.query)
        /\ QueryOfMulti = QueryOfRetrieve
        /\ last.out.ok
        /\ \A i \in 1..Len(last.out.results) :
               last.out.results[i].content = last.query => last.out.results[i].score = 100
        /\ Ok(Untagged(last.out.results))
               \in retrieve(embFile, metaFile, last.query, last.doc_id, last.top_k)

\* a result is the chunk stored at the position of the vector it scores
PointsAtChunk(result, query_embedding, doc_id) ==
    LET vectors == embFile[doc_id].data
        chunks == metaFile[doc_id].data.chunks
        pos == result.chunk_id + 1
    IN  /\ pos \in 1..Len(chunks)
        /\ pos \in 1..Len(vectors)
        /\ result.content = chunks[pos].content
        /\ result.metadata = chunks[pos].metadata
        /\ result.score = cosine_similarity(query_embedding, vectors[pos])

\* C24: in every stored record the chunk at list position i (from 0) has
\* chunk_id i, so the ids are 0..n-1 in the order of the chunk list; and every
\* result of retrieve, retrieve_from_single_doc and
\* retrieve_from_multiple_docs carries the chunk_id and content of the chunk
\* stored at the position of the vector whose similarity is its score.
C24_SequentialChunkIds ==
    /\ \A d \in DocIds :
           metaFile[d].exists /\ metaFile[d].complete =>
               \A i \in 1..Len(metaFile[d].data.chunks) :
                   metaFile[d].data.chunks[i].chunk_id = i - 1
    /\ last.op = "retrieve" /\ last.out.ok =>
           \A i \in 1..Len(last.out.results) :
               PointsAtChunk(last.out.results[i], QueryOfRetrieve, last.doc_id)
    /\ last.op = "retrieve_from_single_doc" /\ last.out.ok =>
           \A i \in 1..Len(last.out.results) :
               /\ last.out.results[i].doc_id = last.doc_id
               /\ PointsAtChunk(last.out.results[i], QueryOfMulti, last.doc_id)
    /\ last.op = "retrieve_from_multiple_docs" /\ last.out.ok =>
           \A i \in 1..Len(last.out.results) :
               PointsAtChunk(last.out.results[i], QueryOfMulti, last.out.results[i].doc_id)

\* retrieve with top_k = 1 has returned the second chunk of a record of two
\* chunks with different contents
C24_Witness ==
    /\ last.op = "retrieve"
    /\ last.top_k = 1
    /\ Readable(last.doc_id)
    /\ Len(metaFile[last.doc_id].data.chunks) = 2
    /\ metaFile[last.doc_id].data.chunks[1].content
           # metaFile[last.doc_id].data.chunks[2].content
    /\ Len(last.out.results) = 1
    /\ last.out.results[1].chunk_id = 1
    /\ last.out.results[1].content = metaFile[last.doc_id].data.chunks[2].content

\* C25: a process_document call that returns has been given a doc_id that
\* no earlier process_document call holds, and leaves the processed record,
\* the vector list and the chunk metadata of every document stored before
\* it as they were.
C25_ProcessNeverOverwrites ==
    [][last.op = "none" /\ last'.op = "process_document" /\ last'.out.ok =>
          /\ ~procFile[last'.doc_id].exists
          /\ \A d \in DocIds :
                 Stored(d) => /\ procFile'[d] = procFile[d]
                              /\ embFile'[d] = embFile[d]
                              /\ metaFile'[d] = metaFile[d]]_vars

\* C26: when no process_document or delete_document call is in progress, a
\* doc_id has a processed-document file exactly when it has an embeddings
\* file and a metadata file, and list_processed_documents and
\* list_available_documents report the same ids.
C26_StoresConsistent ==
    /\ \A d \in DocIds :
           procFile[d].exists <=> (embFile[d].exists /\ metaFile[d].exists)
    /\ {e.id : e \in list_processed_documents(procFile).results}
           = ListedIds(list_available_documents(metaFile))

\* C27: an embed_chunks call that fails because the provider raises leaves
\* total_tokens, total_cost and the files as they were, and a call that
\* returns adds the token counts of its chunks to total_tokens, so that
\* total_tokens is the sum over the calls that succeeded.
C27_CostCountsSucceeded ==
    [][last.op = "none" /\ last'.op = "simple_embed_chunks" =>
          IF last'.out.ok
          THEN /\ total_tokens' = total_tokens + SumTokens(last'.chunks, 1)
               /\ total_cost' = total_cost + SumTokens(last'.chunks, 1) * CostPerToken
          ELSE /\ total_tokens' = total_tokens
               /\ total_cost' = total_cost
               /\ UNCHANGED <<embFile, metaFile>>]_vars

\* C28: for every integer top_k, retrieve, retrieve_from_single_doc and
\* retrieve_from_multiple_docs return at most top_k results; with top_k zero
\* or negative they return an empty list or raise.
C28_AtMostTopK ==
    /\ last.op \in {"retrieve", "retrieve_from_single_doc", "retrieve_from_multiple_docs"}
    /\ last.out.ok
    => Len(last.out.results) <= Max(last.top_k, 0)

IsPrefix(s, t) == Len(s) <= Len(t) /\ SubSeq(t, 1, Len(s)) = s

C30_SessionLifecycle ==
    /\ [](\A x \in sessions : x.token \in tokens)
    /\ [][last.op = "none" /\ last'.op = "validate_session" =>
             /\ last'.out.ok <=> InSessions(last'.token)
             /\ sessions' = sessions]_vars
    /\ [][last.op = "none" /\ last'.op = "authenticate" =>
             /\ last'.out.ok <=>
                    \E i \in 1..Len(users) :
                        /\ users[i].username = last'.username
                        /\ users[i].password_hash = Sha256(last'.password \o users[i].salt)
             /\ last'.out.ok =>
                    /\ last'.token \notin tokens
                    /\ ~InSessions(last'.token)
                    /\ \E x \in sessions' :
                           /\ x.token = last'.token /\ x.username = last'.username
                           /\ sessions' = sessions \cup {x}
             /\ ~last'.out.ok => sessions' = sessions]_vars
    /\ [][last.op = "none" /\ last'.op = "register_user" => sessions' = sessions]_vars
    /\ [][last.op = "none" /\ last'.op = "logout" =>
             sessions' = {x \in sessions : x.token # last'.token}]_vars
    /\ [][\A t \in SessionTokens :
             /\ InSessions(t)' /\ ~InSessions(t) =>
                    last'.op = "authenticate" /\ last'.out.ok /\ last'.token = t
             /\ t \in tokens /\ ~InSessions(t) => ~InSessions(t)']_vars

\* a token that was handed out and logged out is refused while another
\* session of the same instance is still valid
C30_Witness ==
    /\ last.op = "validate_session"
    /\ ~last.out.ok
    /\ last.token \in tokens
    /\ \E x \in sessions : x.token # last.token

====
